---- MODULE Spec2Model ----
(***************************************************************************)
(* The concurrent and stateful programs of the lessons, each with its own  *)
(* variables, initial predicate and next-state relation:                   *)
(*   - the worker pool of lesson08 (demonstrateWorkerPool, worker);        *)
(*   - the cancellable operation of lesson08 (demonstrateContext);         *)
(*   - the mutex-protected counter of lesson08 (SafeCounter);              *)
(*   - panic and recover of lesson07 (demonstratePanicRecover);            *)
(*   - the in-memory user store of the lesson10 REST API.                  *)
(* While one program runs, the variables of the others keep their idle     *)
(* values.                                                                 *)
(***************************************************************************)
EXTENDS Integers, Sequences, FiniteSets, TLC

\* ---------------------------------------------------------------- bounds
MaxJobs == 4
MaxWorkers == 3
MaxOperand == 3
MaxGoroutines == 3
MaxIncrements == 2
MaxTicks == 2
MaxCount == 4

\* ------------------------------------------------------ program constants
JobsCap == 100          \* jobs := make(chan int, 100)
ResultsCap == 100       \* results := make(chan int, 100)
DemoWorkers == 3        \* numWorkers := 3
DemoJobs == 9           \* numJobs := 9
SdReaders == 3          \* for i := 0; i < 3; i++ { go func(id int) {...
SdReads == 3            \* for j := 0; j < 3; j++ { value := data.Read("key")
SdWrites == 3           \* for i := 0; i < 3; i++ { data.Write("key", ...
PipelineCount == 5       \* generateNumbers(5)
JohnHoursAgo == 24      \* time.Now().Add(-24 * time.Hour)
JaneHoursAgo == 12      \* time.Now().Add(-12 * time.Hour)
JohnAge == 25
JaneAge == 30
FirstFreeID == 3        \* nextUserID = 3
MinAge == 0             \* req.Age < 0
MaxAge == 150           \* req.Age > 150
StatusOK == 200
StatusCreated == 201
StatusBadRequest == 400
StatusNotFound == 404

VARIABLES
    \* ---- worker pool (lesson08 demonstrateWorkerPool / worker)
    numJobs,        \* numJobs of demonstrateWorkerPool
    numWorkers,     \* numWorkers of demonstrateWorkerPool
    mainpc,         \* position of demonstrateWorkerPool
    w,              \* loop variable of the "Start workers" loop
    j,              \* loop variable of the "Send jobs" loop
    r,              \* loop variable of the "Collect results" loop
    jobs,           \* buffer of the jobs channel
    jobsClosed,     \* the jobs channel has been closed
    results,        \* buffer of the results channel
    resultsClosed,  \* the results channel has been closed
    wpc,            \* position of each worker goroutine
    wjob,           \* the variable job of each worker (0: not in scope)
    collected,      \* the values received by the collector, in order
    sentJobs,       \* history: the values sent on jobs, in order
    recvLog,        \* history: the values received from jobs, in order
    jobsClosers,    \* history: who called close(jobs), in order
    panicked,       \* the process died of a channel panic
    \* ---- cancellable operation (lesson08 demonstrateContext)
    ctxMainPc,      \* position of demonstrateContext
    opPc,           \* position of the operation goroutine
    opI,            \* loop variable i of the operation goroutine
    cancelPc,       \* position of the goroutine that closes cancel
    cancelClosed,   \* the cancel channel has been closed
    cancelCloses,   \* history: number of close(cancel) calls
    doneSends,      \* history: number of values sent on done
    ctxLog,         \* the lines printed by the operation goroutine
    ctxPanicked,    \* the process died of a channel panic
    \* ---- mutex-protected counter (lesson08 SafeCounter)
    numGoroutines,  \* number of incrementing goroutines
    numIncrements,  \* number of Increment calls of each goroutine
    cntMainPc,      \* position of demonstrateSynchronization
    cntI,           \* loop variable i of the spawn loop
    wgCounter,      \* counter of the sync.WaitGroup
    muHolder,       \* who holds counter.mu (0: unlocked)
    counterValue,   \* counter.value
    incPc,          \* position of each incrementing goroutine
    incJ,           \* loop variable j of each incrementing goroutine
    incTmp,         \* value read by c.value++ before it is written back
    finalValue,     \* the value printed by demonstrateSynchronization
    \* ---- panic and recover (lesson07 demonstratePanicRecover)
    prMainPc,       \* position of demonstratePanicRecover
    prA,            \* first argument of riskyOperation
    prB,            \* second argument of riskyOperation
    prResult,       \* result of safeOperation
    prGoPc,         \* position of the panicking goroutine
    prPanic,        \* panic in flight: owner and value, or none
    prDoneSends,    \* history: number of values sent on done
    prLog,          \* the lines printed
    prCrashed,      \* the process died of an unrecovered panic
    \* ---- REST API user store (lesson10)
    users,          \* the map users
    nextUserID,     \* nextUserID
    clock,          \* the value time.Now() returns next
    req,            \* the last request handled
    pre,            \* users and nextUserID when that request arrived
    resp,           \* the response to the last request
    \* ---- pipeline (lesson08 generateNumbers / squareNumbers / printNumbers)
    plCount,        \* count of generateNumbers
    plMainPc,       \* where demonstrateChannelDirections is
    genPc,          \* where the goroutine of generateNumbers is
    genI,           \* its loop variable i
    sqPc,           \* where the goroutine of squareNumbers is
    sqNum,          \* its loop variable num
    prnNum,         \* num of printNumbers
    plPrinted,      \* the values printed
    plSent1,        \* history: the values delivered on generateNumbers' ch
    plSent2,        \* history: the values delivered on squareNumbers' ch
    ch1Closers,     \* history: who closed generateNumbers' ch, in order
    ch2Closers,     \* history: who closed squareNumbers' ch, in order
    plPanicked,     \* the process died of a channel misuse
    \* ---- SafeData under sync.RWMutex (lesson08)
    sdPhase,        \* where demonstrateSynchronization is
    sdI,            \* its loop variable i while it starts the readers
    rdPc,           \* where each reader goroutine is
    rdJ,            \* each reader's loop variable j
    rdValue,        \* the value each reader's last Read returned
    rdSeen,         \* history: the last completed Write's value at that Read
    wrPc,           \* where the writer goroutine is
    wrI,            \* the writer's loop variable i
    rwReaders,      \* SafeData.mu: the number of read locks held
    rwWriter,       \* SafeData.mu: the write lock is held
    rwPending,      \* SafeData.mu: a Lock call is waiting for the readers
    sdData,         \* SafeData.data
    sdLastWrite,    \* history: the value of the last completed Write
    \* ---- createUser handlers running concurrently (lesson10)
    ccPc,           \* where each handler is
    ccNow,          \* each handler's now
    ccUser,         \* each handler's user
    ccKey,          \* the key each handler's map write is using
    ccTmp,          \* the nextUserID each handler's nextUserID++ has read
    ccResp,         \* the id in each handler's 201 response, 0 before it
    ccCrashed       \* the runtime died of "concurrent map writes"

poolVars == <<numJobs, numWorkers, mainpc, w, j, r, jobs, jobsClosed, results,
              resultsClosed, wpc, wjob, collected, sentJobs, recvLog,
              jobsClosers, panicked>>

ctxVars == <<ctxMainPc, opPc, opI, cancelPc, cancelClosed, cancelCloses,
             doneSends, ctxLog, ctxPanicked>>

cntVars == <<numGoroutines, numIncrements, cntMainPc, cntI, wgCounter,
             muHolder, counterValue, incPc, incJ, incTmp, finalValue>>

prVars == <<prMainPc, prA, prB, prResult, prGoPc, prPanic, prDoneSends,
            prLog, prCrashed>>

restVars == <<users, nextUserID, clock, req, pre, resp>>

plVars == <<plCount, plMainPc, genPc, genI, sqPc, sqNum, prnNum, plPrinted,
            plSent1, plSent2, ch1Closers, ch2Closers, plPanicked>>

sdVars == <<sdPhase, sdI, rdPc, rdJ, rdValue, rdSeen, wrPc, wrI, rwReaders,
            rwWriter, rwPending, sdData, sdLastWrite>>

ccVars == <<ccPc, ccNow, ccUser, ccKey, ccTmp, ccResp, ccCrashed>>

vars == <<poolVars, ctxVars, cntVars, prVars, restVars, plVars, sdVars,
          ccVars>>

\* a nil pointer or interface, and one that holds the value v
None == <<>>
Some(v) == <<v>>

\* ----------------------------------------------- programs that do not run
IdlePool ==
    /\ numJobs = 0
    /\ numWorkers = 0
    /\ mainpc = "idle"
    /\ w = 0
    /\ j = 0
    /\ r = 0
    /\ jobs = <<>>
    /\ jobsClosed = FALSE
    /\ results = <<>>
    /\ resultsClosed = FALSE
    /\ wpc = <<>>
    /\ wjob = <<>>
    /\ collected = <<>>
    /\ sentJobs = <<>>
    /\ recvLog = <<>>
    /\ jobsClosers = <<>>
    /\ panicked = FALSE

IdleCtx ==
    /\ ctxMainPc = "idle"
    /\ opPc = "unborn"
    /\ opI = 0
    /\ cancelPc = "unborn"
    /\ cancelClosed = FALSE
    /\ cancelCloses = 0
    /\ doneSends = 0
    /\ ctxLog = <<>>
    /\ ctxPanicked = FALSE

IdleCnt ==
    /\ numGoroutines = 0
    /\ numIncrements = 0
    /\ cntMainPc = "idle"
    /\ cntI = 0
    /\ wgCounter = 0
    /\ muHolder = 0
    /\ counterValue = 0
    /\ incPc = <<>>
    /\ incJ = <<>>
    /\ incTmp = <<>>
    /\ finalValue = None

IdlePr ==
    /\ prMainPc = "idle"
    /\ prA = 0
    /\ prB = 0
    /\ prResult = None
    /\ prGoPc = "unborn"
    /\ prPanic = None
    /\ prDoneSends = 0
    /\ prLog = <<>>
    /\ prCrashed = FALSE

\* a request without a body (GET, DELETE) and the absence of a request
NoBody == [Kind |-> "none", Name |-> None, Email |-> None, Age |-> None]

NoRequest == [Method |-> "", Path |-> None, Body |-> NoBody]

NoResponse ==
    [Status |-> 0, Success |-> FALSE, Error |-> "", Details |-> <<>>,
     Data |-> None, Message |-> ""]

IdleRest ==
    /\ users = <<>>
    /\ nextUserID = 0
    /\ clock = 0
    /\ req = NoRequest
    /\ pre = [users |-> <<>>, nextUserID |-> 0]
    /\ resp = NoResponse

IdlePl ==
    /\ plCount = 0
    /\ plMainPc = "idle"
    /\ genPc = "unborn"
    /\ genI = 0
    /\ sqPc = "unborn"
    /\ sqNum = 0
    /\ prnNum = 0
    /\ plPrinted = <<>>
    /\ plSent1 = <<>>
    /\ plSent2 = <<>>
    /\ ch1Closers = <<>>
    /\ ch2Closers = <<>>
    /\ plPanicked = FALSE

IdleSd ==
    /\ sdPhase = "idle"
    /\ sdI = 0
    /\ rdPc = <<>>
    /\ rdJ = <<>>
    /\ rdValue = <<>>
    /\ rdSeen = <<>>
    /\ wrPc = "unborn"
    /\ wrI = 0
    /\ rwReaders = 0
    /\ rwWriter = FALSE
    /\ rwPending = FALSE
    /\ sdData = <<>>
    /\ sdLastWrite = ""

IdleCc ==
    /\ ccPc = <<>>
    /\ ccNow = <<>>
    /\ ccUser = <<>>
    /\ ccKey = <<>>
    /\ ccTmp = <<>>
    /\ ccResp = <<>>
    /\ ccCrashed = FALSE

\* --------------------------------------------------------------- helpers
RECURSIVE SeqSum(_)
SeqSum(s) == IF s = <<>> THEN 0 ELSE Head(s) + SeqSum(Tail(s))

SeqSet(s) == {s[i] : i \in 1..Len(s)}

Count(s, v) == Cardinality({i \in 1..Len(s) : s[i] = v})

NoDup(s) == \A a, b \in 1..Len(s) : s[a] = s[b] => a = b

\* ----------------------------------------------------- channel semantics
\* a send on a buffered channel proceeds when the buffer has room
ChanCanSendOffByOne(buf, cap) == Len(buf) < cap - 1
ChanCanSend(buf, cap) == Len(buf) < cap

\* a receive proceeds when a value is buffered
ChanCanRecv(buf) == Len(buf) > 0

\* the buffer after a receive: the oldest value is removed
ChanAfterRecvPeek(buf) == buf
ChanAfterRecv(buf) == Tail(buf)

\* results <- job * 2
TransformPlusTwo(job) == job + 2
Transform(job) == job * 2

\* ------------------------------------------------------------------ Init
InitPool(N, W) ==
    /\ numJobs = N
    /\ numWorkers = W
    /\ mainpc = "spawn"
    /\ w = 1
    /\ j = 1
    /\ r = 1
    /\ jobs = <<>>
    /\ jobsClosed = FALSE
    /\ results = <<>>
    /\ resultsClosed = FALSE
    /\ wpc = [i \in 1..W |-> "unborn"]
    /\ wjob = [i \in 1..W |-> 0]
    /\ collected = <<>>
    /\ sentJobs = <<>>
    /\ recvLog = <<>>
    /\ jobsClosers = <<>>
    /\ panicked = FALSE
    /\ IdleCtx
    /\ IdleCnt
    /\ IdlePr
    /\ IdleRest
    /\ IdlePl
    /\ IdleSd
    /\ IdleCc

Init == \E N \in 0..MaxJobs, W \in 1..MaxWorkers : InitPool(N, W)

\* ------------------------------------------------- demonstrateWorkerPool
\* for w := 1; w <= numWorkers; w++ { go worker(w, jobs, results) }
MainSpawn ==
    /\ ~panicked
    /\ mainpc = "spawn"
    /\ w <= numWorkers
    /\ wpc' = [wpc EXCEPT ![w] = "range"]
    /\ w' = w + 1
    /\ mainpc' = IF w + 1 <= numWorkers THEN "spawn" ELSE "send"
    /\ UNCHANGED <<numJobs, numWorkers, j, r, jobs, jobsClosed, results,
                   resultsClosed, wjob, collected, sentJobs, recvLog,
                   jobsClosers, panicked>>
    /\ UNCHANGED <<ctxVars, cntVars, prVars, restVars, plVars, sdVars, ccVars>>

\* for j := 1; j <= numJobs; j++ { jobs <- j }
MainSendFromZero ==
    /\ ~panicked
    /\ mainpc = "send"
    /\ j <= numJobs
    /\ \/ /\ jobsClosed
          /\ panicked' = TRUE
          /\ UNCHANGED <<jobs, sentJobs, j>>
       \/ /\ ~jobsClosed
          /\ ChanCanSend(jobs, JobsCap)
          /\ jobs' = Append(jobs, j - 1)
          /\ sentJobs' = Append(sentJobs, j - 1)
          /\ j' = j + 1
          /\ UNCHANGED panicked
    /\ UNCHANGED <<numJobs, numWorkers, mainpc, w, r, jobsClosed, results,
                   resultsClosed, wpc, wjob, collected, recvLog, jobsClosers>>
    /\ UNCHANGED <<ctxVars, cntVars, prVars, restVars, plVars, sdVars, ccVars>>

MainSend ==
    /\ ~panicked
    /\ mainpc = "send"
    /\ j <= numJobs
    /\ \/ /\ jobsClosed
          /\ panicked' = TRUE
          /\ UNCHANGED <<jobs, sentJobs, j>>
       \/ /\ ~jobsClosed
          /\ ChanCanSend(jobs, JobsCap)
          /\ jobs' = Append(jobs, j)
          /\ sentJobs' = Append(sentJobs, j)
          /\ j' = j + 1
          /\ UNCHANGED panicked
    /\ UNCHANGED <<numJobs, numWorkers, mainpc, w, r, jobsClosed, results,
                   resultsClosed, wpc, wjob, collected, recvLog, jobsClosers>>
    /\ UNCHANGED <<ctxVars, cntVars, prVars, restVars, plVars, sdVars, ccVars>>

\* close(jobs), reached when the send loop's condition j <= numJobs fails
MainCloseEarly ==
    /\ ~panicked
    /\ mainpc = "send"
    /\ j >= numJobs
    /\ jobsClosers' = Append(jobsClosers, "main")
    /\ IF jobsClosed
          THEN panicked' = TRUE /\ UNCHANGED <<jobsClosed, mainpc>>
          ELSE jobsClosed' = TRUE /\ mainpc' = "collect" /\ UNCHANGED panicked
    /\ UNCHANGED <<numJobs, numWorkers, w, j, r, jobs, results,
                   resultsClosed, wpc, wjob, collected, sentJobs, recvLog>>
    /\ UNCHANGED <<ctxVars, cntVars, prVars, restVars, plVars, sdVars, ccVars>>

MainClose ==
    /\ ~panicked
    /\ mainpc = "send"
    /\ j > numJobs
    /\ jobsClosers' = Append(jobsClosers, "main")
    /\ IF jobsClosed
          THEN panicked' = TRUE /\ UNCHANGED <<jobsClosed, mainpc>>
          ELSE jobsClosed' = TRUE /\ mainpc' = "collect" /\ UNCHANGED panicked
    /\ UNCHANGED <<numJobs, numWorkers, w, j, r, jobs, results,
                   resultsClosed, wpc, wjob, collected, sentJobs, recvLog>>
    /\ UNCHANGED <<ctxVars, cntVars, prVars, restVars, plVars, sdVars, ccVars>>

\* for r := 1; r <= numJobs; r++ { result := <-results; Printf(result) }
MainCollect ==
    /\ ~panicked
    /\ mainpc = "collect"
    /\ r <= numJobs
    /\ ChanCanRecv(results)
    /\ collected' = Append(collected, Head(results))
    /\ results' = ChanAfterRecv(results)
    /\ r' = r + 1
    /\ UNCHANGED <<numJobs, numWorkers, mainpc, w, j, jobs, jobsClosed,
                   resultsClosed, wpc, wjob, sentJobs, recvLog, jobsClosers,
                   panicked>>
    /\ UNCHANGED <<ctxVars, cntVars, prVars, restVars, plVars, sdVars, ccVars>>

\* the collect loop's condition r <= numJobs fails: the function returns
MainReturnClosesResults ==
    /\ ~panicked
    /\ mainpc = "collect"
    /\ r > numJobs
    /\ mainpc' = "done"
    /\ resultsClosed' = TRUE
    /\ UNCHANGED <<numJobs, numWorkers, w, j, r, jobs, jobsClosed, results,
                   wpc, wjob, collected, sentJobs, recvLog,
                   jobsClosers, panicked>>
    /\ UNCHANGED <<ctxVars, cntVars, prVars, restVars, plVars, sdVars, ccVars>>

MainReturn ==
    /\ ~panicked
    /\ mainpc = "collect"
    /\ r > numJobs
    /\ mainpc' = "done"
    /\ UNCHANGED <<numJobs, numWorkers, w, j, r, jobs, jobsClosed, results,
                   resultsClosed, wpc, wjob, collected, sentJobs, recvLog,
                   jobsClosers, panicked>>
    /\ UNCHANGED <<ctxVars, cntVars, prVars, restVars, plVars, sdVars, ccVars>>

Main == MainSpawn \/ MainSend \/ MainClose \/ MainCollect \/ MainReturn

\* ---------------------------------------------------------------- worker
\* for job := range jobs: a value is buffered, the loop body starts
WorkerRecv(id) ==
    /\ ~panicked
    /\ id \in DOMAIN wpc
    /\ wpc[id] = "range"
    /\ ChanCanRecv(jobs)
    /\ wjob' = [wjob EXCEPT ![id] = Head(jobs)]
    /\ recvLog' = Append(recvLog, Head(jobs))
    /\ jobs' = ChanAfterRecv(jobs)
    /\ wpc' = [wpc EXCEPT ![id] = "send"]
    /\ UNCHANGED <<numJobs, numWorkers, mainpc, w, j, r, jobsClosed, results,
                   resultsClosed, collected, sentJobs, jobsClosers, panicked>>
    /\ UNCHANGED <<ctxVars, cntVars, prVars, restVars, plVars, sdVars, ccVars>>

\* results <- job * 2, then back to the head of the range loop
WorkerSendDrop(id) ==
    /\ ~panicked
    /\ id \in DOMAIN wpc
    /\ wpc[id] = "send"
    /\ wpc' = [wpc EXCEPT ![id] = "range"]
    /\ wjob' = [wjob EXCEPT ![id] = 0]
    /\ UNCHANGED <<numJobs, numWorkers, mainpc, w, j, r, jobs, jobsClosed,
                   results, resultsClosed, collected, sentJobs, recvLog,
                   jobsClosers, panicked>>
    /\ UNCHANGED <<ctxVars, cntVars, prVars, restVars, plVars, sdVars, ccVars>>

\* the result is pushed in front of the buffered results
WorkerSendLifo(id) ==
    /\ ~panicked
    /\ id \in DOMAIN wpc
    /\ wpc[id] = "send"
    /\ ~resultsClosed
    /\ ChanCanSend(results, ResultsCap)
    /\ results' = <<Transform(wjob[id])>> \o results
    /\ wpc' = [wpc EXCEPT ![id] = "range"]
    /\ wjob' = [wjob EXCEPT ![id] = 0]
    /\ UNCHANGED <<numJobs, numWorkers, mainpc, w, j, r, jobs, jobsClosed,
                   resultsClosed, collected, sentJobs, recvLog,
                   jobsClosers, panicked>>
    /\ UNCHANGED <<ctxVars, cntVars, prVars, restVars, plVars, sdVars, ccVars>>

\* a worker sends only when it holds the earliest job in flight
WorkerSendInOrder(id) ==
    /\ ~panicked
    /\ id \in DOMAIN wpc
    /\ wpc[id] = "send"
    /\ \A o \in DOMAIN wpc : wpc[o] = "send" => wjob[id] <= wjob[o]
    /\ ~resultsClosed
    /\ ChanCanSend(results, ResultsCap)
    /\ results' = Append(results, Transform(wjob[id]))
    /\ wpc' = [wpc EXCEPT ![id] = "range"]
    /\ wjob' = [wjob EXCEPT ![id] = 0]
    /\ UNCHANGED <<numJobs, numWorkers, mainpc, w, j, r, jobs, jobsClosed,
                   resultsClosed, collected, sentJobs, recvLog,
                   jobsClosers, panicked>>
    /\ UNCHANGED <<ctxVars, cntVars, prVars, restVars, plVars, sdVars, ccVars>>

\* a full results channel makes the worker give up its result
WorkerSendDropWhenFull(id) ==
    /\ ~panicked
    /\ id \in DOMAIN wpc
    /\ wpc[id] = "send"
    /\ ~resultsClosed
    /\ results' = IF ChanCanSend(results, ResultsCap)
                     THEN Append(results, Transform(wjob[id]))
                     ELSE results
    /\ wpc' = [wpc EXCEPT ![id] = "range"]
    /\ wjob' = [wjob EXCEPT ![id] = 0]
    /\ UNCHANGED <<numJobs, numWorkers, mainpc, w, j, r, jobs, jobsClosed,
                   resultsClosed, collected, sentJobs, recvLog,
                   jobsClosers, panicked>>
    /\ UNCHANGED <<ctxVars, cntVars, prVars, restVars, plVars, sdVars, ccVars>>

WorkerSend(id) ==
    /\ ~panicked
    /\ id \in DOMAIN wpc
    /\ wpc[id] = "send"
    /\ \/ /\ resultsClosed
          /\ panicked' = TRUE
          /\ UNCHANGED <<results, wpc, wjob>>
       \/ /\ ~resultsClosed
          /\ ChanCanSend(results, ResultsCap)
          /\ results' = Append(results, Transform(wjob[id]))
          /\ wpc' = [wpc EXCEPT ![id] = "range"]
          /\ wjob' = [wjob EXCEPT ![id] = 0]
          /\ UNCHANGED panicked
    /\ UNCHANGED <<numJobs, numWorkers, mainpc, w, j, r, jobs, jobsClosed,
                   resultsClosed, collected, sentJobs, recvLog,
                   jobsClosers>>
    /\ UNCHANGED <<ctxVars, cntVars, prVars, restVars, plVars, sdVars, ccVars>>

\* for job := range jobs: the channel is closed and empty, the worker returns
WorkerExitNever(id) ==
    /\ FALSE
    /\ UNCHANGED vars

WorkerExit(id) ==
    /\ ~panicked
    /\ id \in DOMAIN wpc
    /\ wpc[id] = "range"
    /\ ~ChanCanRecv(jobs)
    /\ jobsClosed
    /\ wpc' = [wpc EXCEPT ![id] = "exit"]
    /\ UNCHANGED <<numJobs, numWorkers, mainpc, w, j, r, jobs, jobsClosed,
                   results, resultsClosed, wjob, collected, sentJobs, recvLog,
                   jobsClosers, panicked>>
    /\ UNCHANGED <<ctxVars, cntVars, prVars, restVars, plVars, sdVars, ccVars>>

worker(id) == WorkerRecv(id) \/ WorkerSend(id) \/ WorkerExit(id)

\* ------------------------------------------------------- specifications
Next ==
    \/ MainSpawn
    \/ MainSend
    \/ MainClose
    \/ MainCollect
    \/ MainReturn
    \/ \E id \in DOMAIN wpc : WorkerRecv(id)
    \/ \E id \in DOMAIN wpc : WorkerSend(id)
    \/ \E id \in DOMAIN wpc : WorkerExit(id)

Spec == Init /\ [][Next]_vars

\* every runnable goroutine is eventually scheduled
Fairness ==
    /\ WF_vars(Main)
    /\ \A id \in 1..MaxWorkers : WF_vars(worker(id))

FairSpec == Spec /\ Fairness

\* the demonstration as written: numJobs := 9, numWorkers := 3
InitDemo == InitPool(DemoJobs, DemoWorkers)

SpecDemo == InitDemo /\ [][Next]_vars

\* one worker per job
InitOnePerJob == InitPool(5, 5)

SpecOnePerJob == InitOnePerJob /\ [][Next]_vars

FairSpecOnePerJob ==
    /\ SpecOnePerJob
    /\ WF_vars(Main)
    /\ \A id \in 1..5 : WF_vars(worker(id))

\* job counts at and beyond what the two buffers and one worker can absorb
\* before the first result is collected
InitOverflow ==
    \E N \in {JobsCap, JobsCap + 1,
              JobsCap + ResultsCap + 1, JobsCap + ResultsCap + 2} :
        InitPool(N, 1)

InitAnyN == Init \/ InitOverflow

SpecAnyN == InitAnyN /\ [][Next]_vars

FairSpecAnyN == SpecAnyN /\ Fairness

\* ------------------------------------------------------ state predicates
\* the values sent on the results channel so far, in order
Produced == collected \o results

AllExited == \A id \in DOMAIN wpc : wpc[id] = "exit"

\* demonstrateWorkerPool cannot take its next step
MainBlockedOnSend ==
    /\ mainpc = "send"
    /\ j <= numJobs
    /\ ~jobsClosed
    /\ ~ChanCanSend(jobs, JobsCap)

MainBlockedOnCollect ==
    /\ mainpc = "collect"
    /\ r <= numJobs
    /\ ~ChanCanRecv(results)

\* a worker waits in "range jobs" on an empty, open channel
WorkerBlockedOnIntake(id) ==
    /\ wpc[id] = "range"
    /\ ~ChanCanRecv(jobs)
    /\ ~jobsClosed

WorkerBlockedOnResults(id) ==
    /\ wpc[id] = "send"
    /\ ~resultsClosed
    /\ ~ChanCanSend(results, ResultsCap)

\* every goroutine of the pool is asleep or gone and the caller is asleep
Deadlocked ==
    /\ ~panicked
    /\ MainBlockedOnSend \/ MainBlockedOnCollect
    /\ \A id \in DOMAIN wpc :
          \/ wpc[id] = "exit"
          \/ WorkerBlockedOnIntake(id)
          \/ WorkerBlockedOnResults(id)

\* INIT = 0, RUNNING = 1, DRAINING = 2, DONE = 3
PhaseRank ==
    IF jobsClosed /\ AllExited THEN 3
    ELSE IF jobsClosed THEN 2
    ELSE IF \E id \in DOMAIN wpc : wpc[id] # "unborn" THEN 1
    ELSE 0

\* ============================================== demonstrateContext
OpSteps == 10           \* for i := 0; i < 10; i++

InitCtx ==
    /\ ctxMainPc = "start"
    /\ opPc = "unborn"
    /\ opI = 0
    /\ cancelPc = "unborn"
    /\ cancelClosed = FALSE
    /\ cancelCloses = 0
    /\ doneSends = 0
    /\ ctxLog = <<>>
    /\ ctxPanicked = FALSE
    /\ IdlePool
    /\ IdleCnt
    /\ IdlePr
    /\ IdleRest
    /\ IdlePl
    /\ IdleSd
    /\ IdleCc

\* the process runs: no panic, and main has not returned from the last demo
CtxAlive == ~ctxPanicked /\ ctxMainPc # "finished"

\* go func() { defer func() { done <- true }(); for ... }()
CtxMainStartOp ==
    /\ CtxAlive
    /\ ctxMainPc = "start"
    /\ opPc' = "select"
    /\ ctxMainPc' = "startCancel"
    /\ UNCHANGED <<opI, cancelPc, cancelClosed, cancelCloses, doneSends,
                   ctxLog, ctxPanicked>>
    /\ UNCHANGED <<poolVars, cntVars, prVars, restVars, plVars, sdVars, ccVars>>

\* go func() { time.Sleep(1 * time.Second); close(cancel) }()
CtxMainStartCanceller ==
    /\ CtxAlive
    /\ ctxMainPc = "startCancel"
    /\ cancelPc' = "sleep"
    /\ ctxMainPc' = "wait"
    /\ UNCHANGED <<opPc, opI, cancelClosed, cancelCloses, doneSends, ctxLog,
                   ctxPanicked>>
    /\ UNCHANGED <<poolVars, cntVars, prVars, restVars, plVars, sdVars, ccVars>>

\* the sleep is over: close(cancel)
CancelClose ==
    /\ CtxAlive
    /\ cancelPc = "sleep"
    /\ cancelCloses' = cancelCloses + 1
    /\ cancelPc' = "exit"
    /\ IF cancelClosed
          THEN ctxPanicked' = TRUE /\ UNCHANGED cancelClosed
          ELSE cancelClosed' = TRUE /\ UNCHANGED ctxPanicked
    /\ UNCHANGED <<ctxMainPc, opPc, opI, doneSends, ctxLog>>
    /\ UNCHANGED <<poolVars, cntVars, prVars, restVars, plVars, sdVars, ccVars>>

\* select { case <-cancel: Println("Operation cancelled!"); return
OpSelectCancelledNoReturn ==
    /\ CtxAlive
    /\ opPc = "select"
    /\ opI < OpSteps
    /\ cancelClosed
    /\ ctxLog' = Append(ctxLog, <<"cancelled", 0>>)
    /\ opPc' = "sleep"
    /\ UNCHANGED <<ctxMainPc, opI, cancelPc, cancelClosed, cancelCloses,
                   doneSends, ctxPanicked>>
    /\ UNCHANGED <<poolVars, cntVars, prVars, restVars, plVars, sdVars, ccVars>>

OpSelectCancelled ==
    /\ CtxAlive
    /\ opPc = "select"
    /\ opI < OpSteps
    /\ cancelClosed
    /\ ctxLog' = Append(ctxLog, <<"cancelled", 0>>)
    /\ opPc' = "defer"
    /\ UNCHANGED <<ctxMainPc, opI, cancelPc, cancelClosed, cancelCloses,
                   doneSends, ctxPanicked>>
    /\ UNCHANGED <<poolVars, cntVars, prVars, restVars, plVars, sdVars, ccVars>>

\* select { ... default: Printf("Working... step %d\n", i+1); Sleep
OpSelectDefaultAlways ==
    /\ CtxAlive
    /\ opPc = "select"
    /\ opI < OpSteps
    /\ ctxLog' = Append(ctxLog, <<"step", opI + 1>>)
    /\ opPc' = "sleep"
    /\ UNCHANGED <<ctxMainPc, opI, cancelPc, cancelClosed, cancelCloses,
                   doneSends, ctxPanicked>>
    /\ UNCHANGED <<poolVars, cntVars, prVars, restVars, plVars, sdVars, ccVars>>

OpSelectDefault ==
    /\ CtxAlive
    /\ opPc = "select"
    /\ opI < OpSteps
    /\ ~cancelClosed
    /\ ctxLog' = Append(ctxLog, <<"step", opI + 1>>)
    /\ opPc' = "sleep"
    /\ UNCHANGED <<ctxMainPc, opI, cancelPc, cancelClosed, cancelCloses,
                   doneSends, ctxPanicked>>
    /\ UNCHANGED <<poolVars, cntVars, prVars, restVars, plVars, sdVars, ccVars>>

\* the sleep of the default branch is over: i++ and back to the loop head
OpWake ==
    /\ CtxAlive
    /\ opPc = "sleep"
    /\ opI' = opI + 1
    /\ opPc' = "select"
    /\ UNCHANGED <<ctxMainPc, cancelPc, cancelClosed, cancelCloses, doneSends,
                   ctxLog, ctxPanicked>>
    /\ UNCHANGED <<poolVars, cntVars, prVars, restVars, plVars, sdVars, ccVars>>

\* the loop condition i < 10 fails: Println("Operation completed!")
OpCompleted ==
    /\ CtxAlive
    /\ opPc = "select"
    /\ opI >= OpSteps
    /\ ctxLog' = Append(ctxLog, <<"completed", 0>>)
    /\ opPc' = "defer"
    /\ UNCHANGED <<ctxMainPc, opI, cancelPc, cancelClosed, cancelCloses,
                   doneSends, ctxPanicked>>
    /\ UNCHANGED <<poolVars, cntVars, prVars, restVars, plVars, sdVars, ccVars>>

\* defer func() { done <- true }() meets <-done of demonstrateContext:
\* done is unbuffered, the send and the receive happen together
OpSendDone ==
    /\ CtxAlive
    /\ opPc = "defer"
    /\ ctxMainPc = "wait"
    /\ doneSends' = doneSends + 1
    /\ opPc' = "exit"
    /\ ctxMainPc' = "received"
    /\ UNCHANGED <<opI, cancelPc, cancelClosed, cancelCloses, ctxLog,
                   ctxPanicked>>
    /\ UNCHANGED <<poolVars, cntVars, prVars, restVars, plVars, sdVars, ccVars>>

\* Println("Context demonstration finished"); main returns
CtxMainFinish ==
    /\ CtxAlive
    /\ ctxMainPc = "received"
    /\ ctxMainPc' = "finished"
    /\ UNCHANGED <<opPc, opI, cancelPc, cancelClosed, cancelCloses, doneSends,
                   ctxLog, ctxPanicked>>
    /\ UNCHANGED <<poolVars, cntVars, prVars, restVars, plVars, sdVars, ccVars>>

CtxMain == CtxMainStartOp \/ CtxMainStartCanceller \/ CtxMainFinish

Operation ==
    OpSelectCancelled \/ OpSelectDefault \/ OpWake \/ OpCompleted \/ OpSendDone

NextCtx ==
    \/ CtxMainStartOp
    \/ CtxMainStartCanceller
    \/ CancelClose
    \/ OpSelectCancelled
    \/ OpSelectDefault
    \/ OpWake
    \/ OpCompleted
    \/ OpSendDone
    \/ CtxMainFinish

SpecCtx == InitCtx /\ [][NextCtx]_vars

FairSpecCtx ==
    /\ SpecCtx
    /\ WF_vars(CtxMain)
    /\ WF_vars(Operation)
    /\ WF_vars(CancelClose)

\* what the operation goroutine has printed
Reported(line) == \E k \in 1..Len(ctxLog) : ctxLog[k][1] = line

\* the lines a step adds to the output of the operation goroutine
NewLines == {ctxLog'[k][1] : k \in (Len(ctxLog) + 1)..Len(ctxLog')}

\* the operation goroutine will evaluate the select statement once more
NextCheckExists ==
    \/ opPc = "select" /\ opI < OpSteps
    \/ opPc = "sleep" /\ opI + 1 < OpSteps

\* ========================================== demonstratePanicRecover
PrDemoA == 10           \* riskyOperation(10, 0)
PrDemoB == 0            \* riskyOperation(10, 0)

Operands == (-MaxOperand)..MaxOperand

Abs(x) == IF x < 0 THEN -x ELSE x

\* a / b on Go integers truncates toward zero
GoDiv(a, b) ==
    LET q == Abs(a) \div Abs(b)
    IN  IF (a < 0) # (b < 0) THEN -q ELSE q

InitPrArgs(a, b) ==
    /\ prMainPc = "call"
    /\ prA = a
    /\ prB = b
    /\ prResult = None
    /\ prGoPc = "unborn"
    /\ prPanic = None
    /\ prDoneSends = 0
    /\ prLog = <<>>
    /\ prCrashed = FALSE
    /\ IdlePool
    /\ IdleCtx
    /\ IdleCnt
    /\ IdleRest
    /\ IdlePl
    /\ IdleSd
    /\ IdleCc

InitPr ==
    \E a \in Operands \cup {PrDemoA}, b \in Operands \cup {PrDemoB} :
        InitPrArgs(a, b)

\* safeOperation calls operation(), which calls riskyOperation(a, b):
\* b == 0 panics, otherwise a / b is returned through safeOperation
PrRiskyNoCheck ==
    /\ ~prCrashed
    /\ prMainPc = "call"
    /\ prResult' = Some(IF prB = 0 THEN 0 ELSE GoDiv(prA, prB))
    /\ prMainPc' = "report"
    /\ UNCHANGED <<prA, prB, prGoPc, prPanic, prDoneSends, prLog, prCrashed>>
    /\ UNCHANGED <<poolVars, ctxVars, cntVars, restVars, plVars, sdVars, ccVars>>

PrRisky ==
    /\ ~prCrashed
    /\ prMainPc = "call"
    /\ IF prB = 0
          THEN /\ prPanic' = <<"main", "division by zero in risky operation">>
               /\ prMainPc' = "unwind"
               /\ UNCHANGED prResult
          ELSE /\ prResult' = Some(GoDiv(prA, prB))
               /\ prMainPc' = "report"
               /\ UNCHANGED prPanic
    /\ UNCHANGED <<prA, prB, prGoPc, prDoneSends, prLog, prCrashed>>
    /\ UNCHANGED <<poolVars, ctxVars, cntVars, restVars, plVars, sdVars, ccVars>>

\* the deferred function of safeOperation while the panic unwinds:
\* recover() returns the panic value, it is printed and result = nil
PrSafeNoRecover ==
    /\ ~prCrashed
    /\ prMainPc = "unwind"
    /\ prPanic # None
    /\ prPanic[1] = "main"
    /\ prCrashed' = TRUE
    /\ UNCHANGED <<prA, prB, prResult, prGoPc, prPanic, prDoneSends, prLog,
                   prMainPc>>
    /\ UNCHANGED <<poolVars, ctxVars, cntVars, restVars, plVars, sdVars, ccVars>>

PrSafeRecover ==
    /\ ~prCrashed
    /\ prMainPc = "unwind"
    /\ prPanic # None
    /\ prPanic[1] = "main"
    /\ prLog' = Append(prLog, <<"Recovered from panic", Some(prPanic[2])>>)
    /\ prResult' = None
    /\ prPanic' = None
    /\ prMainPc' = "report"
    /\ UNCHANGED <<prA, prB, prGoPc, prDoneSends, prCrashed>>
    /\ UNCHANGED <<poolVars, ctxVars, cntVars, restVars, plVars, sdVars, ccVars>>

\* if result != nil { Printf("Safe operation result") } else { Println(...) }
PrReport ==
    /\ ~prCrashed
    /\ prMainPc = "report"
    /\ prLog' = Append(prLog,
                       IF prResult # None
                          THEN <<"Safe operation result", prResult>>
                          ELSE <<"Operation failed safely", None>>)
    /\ prMainPc' = "spawn"
    /\ UNCHANGED <<prA, prB, prResult, prGoPc, prPanic, prDoneSends,
                   prCrashed>>
    /\ UNCHANGED <<poolVars, ctxVars, cntVars, restVars, plVars, sdVars, ccVars>>

\* done := make(chan bool); go func() { defer ...; panic(...) }()
PrMainSpawn ==
    /\ ~prCrashed
    /\ prMainPc = "spawn"
    /\ prGoPc' = "body"
    /\ prMainPc' = "wait"
    /\ UNCHANGED <<prA, prB, prResult, prPanic, prDoneSends, prLog, prCrashed>>
    /\ UNCHANGED <<poolVars, ctxVars, cntVars, restVars, plVars, sdVars, ccVars>>

\* panic("Something went wrong in goroutine!")
PrGoPanic ==
    /\ ~prCrashed
    /\ prGoPc = "body"
    /\ prPanic' = <<"goroutine", "Something went wrong in goroutine!">>
    /\ prGoPc' = "deferred"
    /\ UNCHANGED <<prMainPc, prA, prB, prResult, prDoneSends, prLog,
                   prCrashed>>
    /\ UNCHANGED <<poolVars, ctxVars, cntVars, restVars, plVars, sdVars, ccVars>>

\* the deferred function: if r := recover(); r != nil { Printf(...) }
PrGoNoRecover ==
    /\ ~prCrashed
    /\ prGoPc = "deferred"
    /\ prGoPc' = "sendDone"
    /\ UNCHANGED <<prMainPc, prA, prB, prResult, prPanic, prDoneSends, prLog,
                   prCrashed>>
    /\ UNCHANGED <<poolVars, ctxVars, cntVars, restVars, plVars, sdVars, ccVars>>

PrGoRecover ==
    /\ ~prCrashed
    /\ prGoPc = "deferred"
    /\ IF prPanic # None
          THEN /\ prLog' = Append(prLog, <<"Recovered from panic in goroutine",
                                           Some(prPanic[2])>>)
               /\ prPanic' = None
          ELSE UNCHANGED <<prLog, prPanic>>
    /\ prGoPc' = "sendDone"
    /\ UNCHANGED <<prMainPc, prA, prB, prResult, prDoneSends, prCrashed>>
    /\ UNCHANGED <<poolVars, ctxVars, cntVars, restVars, plVars, sdVars, ccVars>>

\* the deferred function: done <- true, meeting <-done of the caller
\* (done is unbuffered)
PrGoSendDone ==
    /\ ~prCrashed
    /\ prGoPc = "sendDone"
    /\ prMainPc = "wait"
    /\ prDoneSends' = prDoneSends + 1
    /\ prGoPc' = "return"
    /\ prMainPc' = "received"
    /\ UNCHANGED <<prA, prB, prResult, prPanic, prLog, prCrashed>>
    /\ UNCHANGED <<poolVars, ctxVars, cntVars, restVars, plVars, sdVars, ccVars>>

\* the deferred function has returned: a panic still in flight kills the
\* process, otherwise the goroutine ends
PrGoReturn ==
    /\ ~prCrashed
    /\ prGoPc = "return"
    /\ IF prPanic # None
          THEN prCrashed' = TRUE /\ UNCHANGED prGoPc
          ELSE prGoPc' = "exit" /\ UNCHANGED prCrashed
    /\ UNCHANGED <<prMainPc, prA, prB, prResult, prPanic, prDoneSends, prLog>>
    /\ UNCHANGED <<poolVars, ctxVars, cntVars, restVars, plVars, sdVars, ccVars>>

\* Println("Goroutine completed"); demonstratePanicRecover returns
PrMainCompleted ==
    /\ ~prCrashed
    /\ prMainPc = "received"
    /\ prLog' = Append(prLog, <<"Goroutine completed", None>>)
    /\ prMainPc' = "returned"
    /\ UNCHANGED <<prA, prB, prResult, prGoPc, prPanic, prDoneSends,
                   prCrashed>>
    /\ UNCHANGED <<poolVars, ctxVars, cntVars, restVars, plVars, sdVars, ccVars>>

PrMain ==
    PrRisky \/ PrSafeRecover \/ PrReport \/ PrMainSpawn \/ PrMainCompleted

PrGoroutine == PrGoPanic \/ PrGoRecover \/ PrGoSendDone \/ PrGoReturn

NextPr ==
    \/ PrRisky
    \/ PrSafeRecover
    \/ PrReport
    \/ PrMainSpawn
    \/ PrGoPanic
    \/ PrGoRecover
    \/ PrGoSendDone
    \/ PrGoReturn
    \/ PrMainCompleted

SpecPr == InitPr /\ [][NextPr]_vars

FairSpecPr == SpecPr /\ WF_vars(PrMain) /\ WF_vars(PrGoroutine)

\* ==================================== SafeCounter under sync.WaitGroup
InitCntArgs(G, K) ==
    /\ numGoroutines = G
    /\ numIncrements = K
    /\ cntMainPc = "spawn"
    /\ cntI = 0
    /\ wgCounter = 0
    /\ muHolder = 0
    /\ counterValue = 0
    /\ incPc = [g \in 1..G |-> "unborn"]
    /\ incJ = [g \in 1..G |-> 0]
    /\ incTmp = [g \in 1..G |-> 0]
    /\ finalValue = None
    /\ IdlePool
    /\ IdleCtx
    /\ IdlePr
    /\ IdleRest
    /\ IdlePl
    /\ IdleSd
    /\ IdleCc

InitCnt ==
    \E G \in 1..MaxGoroutines, K \in 0..MaxIncrements : InitCntArgs(G, K)

\* the holder of counter.mu when demonstrateSynchronization holds it
MainHolder == -1

\* the process has not died of "sync: unlock of unlocked mutex"
CntAlive == cntMainPc # "fatal"

\* for i := 0; i < 10; i++ { wg.Add(1); go func(n int) {...}(i) }
CntMainSpawn ==
    /\ CntAlive
    /\ cntMainPc = "spawn"
    /\ cntI < numGoroutines
    /\ wgCounter' = wgCounter + 1
    /\ incPc' = [incPc EXCEPT ![cntI + 1] = "loop"]
    /\ cntI' = cntI + 1
    /\ cntMainPc' = IF cntI + 1 < numGoroutines THEN "spawn" ELSE "wait"
    /\ UNCHANGED <<numGoroutines, numIncrements, muHolder, counterValue, incJ,
                   incTmp, finalValue>>
    /\ UNCHANGED <<poolVars, ctxVars, prVars, restVars, plVars, sdVars, ccVars>>

\* Increment: c.mu.Lock(), entered while j < 100
IncLockNoWait(g) ==
    /\ CntAlive
    /\ g \in DOMAIN incPc
    /\ incPc[g] = "loop"
    /\ incJ[g] < numIncrements
    /\ muHolder' = g
    /\ incPc' = [incPc EXCEPT ![g] = "load"]
    /\ UNCHANGED <<numGoroutines, numIncrements, cntMainPc, cntI, wgCounter,
                   counterValue, incJ, incTmp, finalValue>>
    /\ UNCHANGED <<poolVars, ctxVars, prVars, restVars, plVars, sdVars, ccVars>>

IncLock(g) ==
    /\ CntAlive
    /\ g \in DOMAIN incPc
    /\ incPc[g] = "loop"
    /\ incJ[g] < numIncrements
    /\ muHolder = 0
    /\ muHolder' = g
    /\ incPc' = [incPc EXCEPT ![g] = "load"]
    /\ UNCHANGED <<numGoroutines, numIncrements, cntMainPc, cntI, wgCounter,
                   counterValue, incJ, incTmp, finalValue>>
    /\ UNCHANGED <<poolVars, ctxVars, prVars, restVars, plVars, sdVars, ccVars>>

\* c.value++ reads c.value ...
IncLoad(g) ==
    /\ CntAlive
    /\ g \in DOMAIN incPc
    /\ incPc[g] = "load"
    /\ incTmp' = [incTmp EXCEPT ![g] = counterValue]
    /\ incPc' = [incPc EXCEPT ![g] = "store"]
    /\ UNCHANGED <<numGoroutines, numIncrements, cntMainPc, cntI, wgCounter,
                   muHolder, counterValue, incJ, finalValue>>
    /\ UNCHANGED <<poolVars, ctxVars, prVars, restVars, plVars, sdVars, ccVars>>

\* ... and writes the value read plus one
IncStore(g) ==
    /\ CntAlive
    /\ g \in DOMAIN incPc
    /\ incPc[g] = "store"
    /\ counterValue' = incTmp[g] + 1
    /\ incPc' = [incPc EXCEPT ![g] = "unlock"]
    /\ UNCHANGED <<numGoroutines, numIncrements, cntMainPc, cntI, wgCounter,
                   muHolder, incJ, incTmp, finalValue>>
    /\ UNCHANGED <<poolVars, ctxVars, prVars, restVars, plVars, sdVars, ccVars>>

\* defer c.mu.Unlock(), Increment returns, j++
IncUnlock(g) ==
    /\ CntAlive
    /\ g \in DOMAIN incPc
    /\ incPc[g] = "unlock"
    /\ IF muHolder = 0
          THEN cntMainPc' = "fatal" /\ UNCHANGED <<muHolder, incJ, incPc>>
          ELSE /\ muHolder' = 0
               /\ incJ' = [incJ EXCEPT ![g] = incJ[g] + 1]
               /\ incPc' = [incPc EXCEPT ![g] = "loop"]
               /\ UNCHANGED cntMainPc
    /\ UNCHANGED <<numGoroutines, numIncrements, cntI, wgCounter,
                   counterValue, incTmp, finalValue>>
    /\ UNCHANGED <<poolVars, ctxVars, prVars, restVars, plVars, sdVars, ccVars>>

\* the loop is over: Printf("Goroutine %d finished"), defer wg.Done()
IncFinish(g) ==
    /\ CntAlive
    /\ g \in DOMAIN incPc
    /\ incPc[g] = "loop"
    /\ incJ[g] >= numIncrements
    /\ wgCounter' = wgCounter - 1
    /\ incPc' = [incPc EXCEPT ![g] = "exit"]
    /\ UNCHANGED <<numGoroutines, numIncrements, cntMainPc, cntI, muHolder,
                   counterValue, incJ, incTmp, finalValue>>
    /\ UNCHANGED <<poolVars, ctxVars, prVars, restVars, plVars, sdVars, ccVars>>

\* wg.Wait() returns when the counter of the WaitGroup is zero
CntMainWait ==
    /\ CntAlive
    /\ cntMainPc = "wait"
    /\ wgCounter = 0
    /\ cntMainPc' = "value"
    /\ UNCHANGED <<numGoroutines, numIncrements, cntI, wgCounter, muHolder,
                   counterValue, incPc, incJ, incTmp, finalValue>>
    /\ UNCHANGED <<poolVars, ctxVars, prVars, restVars, plVars, sdVars, ccVars>>

\* counter.Value(): c.mu.Lock()
CntMainValueLock ==
    /\ CntAlive
    /\ cntMainPc = "value"
    /\ muHolder = 0
    /\ muHolder' = MainHolder
    /\ cntMainPc' = "valueRead"
    /\ UNCHANGED <<numGoroutines, numIncrements, cntI, wgCounter,
                   counterValue, incPc, incJ, incTmp, finalValue>>
    /\ UNCHANGED <<poolVars, ctxVars, prVars, restVars, plVars, sdVars, ccVars>>

\* return c.value with the deferred c.mu.Unlock(); the value is printed
CntMainValueReturn ==
    /\ CntAlive
    /\ cntMainPc = "valueRead"
    /\ finalValue' = Some(counterValue)
    /\ muHolder' = 0
    /\ cntMainPc' = "printed"
    /\ UNCHANGED <<numGoroutines, numIncrements, cntI, wgCounter,
                   counterValue, incPc, incJ, incTmp>>
    /\ UNCHANGED <<poolVars, ctxVars, prVars, restVars, plVars, sdVars, ccVars>>

NextCnt ==
    \/ CntMainSpawn
    \/ \E g \in DOMAIN incPc : IncLock(g)
    \/ \E g \in DOMAIN incPc : IncLoad(g)
    \/ \E g \in DOMAIN incPc : IncStore(g)
    \/ \E g \in DOMAIN incPc : IncUnlock(g)
    \/ \E g \in DOMAIN incPc : IncFinish(g)
    \/ CntMainWait
    \/ CntMainValueLock
    \/ CntMainValueReturn

SpecCnt == InitCnt /\ [][NextCnt]_vars

\* the goroutines inside Increment's critical section
InCritical == {g \in DOMAIN incPc : incPc[g] \in {"load", "store", "unlock"}}

RECURSIVE SumUpTo(_, _)
SumUpTo(f, n) == IF n = 0 THEN 0 ELSE f[n] + SumUpTo(f, n - 1)

\* the Increment calls that have returned
IncrementsDone == SumUpTo(incJ, numGoroutines)

\* ============================================ REST API user store
\* strings are sequences of characters
JohnName == <<"J", "o", "h", "n", " ", "D", "o", "e">>
JohnEmail == <<"j", "o", "h", "n", "@", "e", "x", "a", "m", "p", "l", "e",
               ".", "c", "o", "m">>
JaneName == <<"J", "a", "n", "e", " ", "S", "m", "i", "t", "h">>
JaneEmail == <<"j", "a", "n", "e", "@", "e", "x", "a", "m", "p", "l", "e",
               ".", "c", "o", "m">>

\* strings.TrimSpace
WhiteSpace == {" ", "\t", "\n", "\r"}

RECURSIVE TrimLeft(_)
TrimLeft(s) ==
    IF s # <<>> /\ Head(s) \in WhiteSpace THEN TrimLeft(Tail(s)) ELSE s

RECURSIVE TrimRight(_)
TrimRight(s) ==
    IF s # <<>> /\ s[Len(s)] \in WhiteSpace
       THEN TrimRight(SubSeq(s, 1, Len(s) - 1))
       ELSE s

TrimSpace(s) == TrimRight(TrimLeft(s))

\* strings.Contains(s, c) for a one-character c
Contains(s, c) == \E i \in 1..Len(s) : s[i] = c

\* the value of an optional JSON field, zero when the field is absent
OrElse(opt, zero) == IF opt = None THEN zero ELSE opt[1]

\* json.Unmarshal(body, &req) for a CreateUserRequest
DecodeCreate(body) ==
    [Name |-> OrElse(body.Name, <<>>),
     Email |-> OrElse(body.Email, <<>>),
     Age |-> OrElse(body.Age, 0)]

ValidationError(field, message) == [Field |-> field, Message |-> message]

NameErrors(cr) ==
    IF TrimSpace(cr.Name) = <<>>
       THEN <<ValidationError("name", "Name is required")>>
       ELSE <<>>

EmailErrorsNoElse(cr) ==
    (IF TrimSpace(cr.Email) = <<>>
        THEN <<ValidationError("email", "Email is required")>>
        ELSE <<>>)
    \o (IF ~Contains(cr.Email, "@")
           THEN <<ValidationError("email", "Invalid email format")>>
           ELSE <<>>)

EmailErrors(cr) ==
    IF TrimSpace(cr.Email) = <<>>
       THEN <<ValidationError("email", "Email is required")>>
       ELSE IF ~Contains(cr.Email, "@")
               THEN <<ValidationError("email", "Invalid email format")>>
               ELSE <<>>

AgeErrors(cr) ==
    IF cr.Age < MinAge \/ cr.Age > MaxAge
       THEN <<ValidationError("age", "Age must be between 0 and 150")>>
       ELSE <<>>

validateCreateUserRequest(cr) == NameErrors(cr) \o EmailErrors(cr) \o AgeErrors(cr)

respondWithError(status, message) ==
    [Status |-> status, Success |-> FALSE, Error |-> message,
     Details |-> <<>>, Data |-> None, Message |-> ""]

respondWithValidationErrors(errors) ==
    [Status |-> StatusBadRequest, Success |-> FALSE,
     Error |-> "Validation failed", Details |-> errors, Data |-> None,
     Message |-> ""]

respondWithJSON(status, data, message) ==
    [Status |-> status, Success |-> TRUE, Error |-> "", Details |-> <<>>,
     Data |-> data, Message |-> message]

\* the outcome of a handler: the store it leaves, its response, and
\* whether it called time.Now()
Outcome(u, n, ticked, response) ==
    [users |-> u, nextUserID |-> n, ticked |-> ticked, resp |-> response]

\* delete(users, id)
MapDelete(u, id) == [k \in DOMAIN u \ {id} |-> u[k]]

\* users[id] = user
MapPut(u, id, user) ==
    [k \in DOMAIN u \cup {id} |-> IF k = id THEN user ELSE u[k]]

getUser(u, n, id) ==
    IF id \notin DOMAIN u
       THEN Outcome(u, n, FALSE, respondWithError(StatusNotFound, "User not found"))
       ELSE Outcome(u, n, FALSE, respondWithJSON(StatusOK, Some(u[id]), ""))

createUser(u, n, now, body) ==
    IF body.Kind = "unreadable"
       THEN Outcome(u, n, FALSE,
                    respondWithError(StatusBadRequest, "Failed to read request body"))
    ELSE IF body.Kind # "json"
       THEN Outcome(u, n, FALSE,
                    respondWithError(StatusBadRequest, "Invalid JSON format"))
    ELSE IF Len(validateCreateUserRequest(DecodeCreate(body))) > 0
       THEN Outcome(u, n, FALSE,
                    respondWithValidationErrors(
                        validateCreateUserRequest(DecodeCreate(body))))
    ELSE LET cr == DecodeCreate(body)
             user == [ID |-> n, Name |-> cr.Name, Email |-> cr.Email,
                      Age |-> cr.Age, CreatedAt |-> now, UpdatedAt |-> now]
         IN  Outcome(MapPut(u, n, user), n + 1, TRUE,
                     respondWithJSON(StatusCreated, Some(user),
                                     "User created successfully"))

\* the fields of the body that are present replace the user's
ApplyUpdateReplace(user, body, now) ==
    [user EXCEPT !.Name = OrElse(body.Name, <<>>),
                 !.Email = OrElse(body.Email, <<>>),
                 !.Age = OrElse(body.Age, 0),
                 !.UpdatedAt = now]

ApplyUpdate(user, body, now) ==
    [user EXCEPT !.Name = OrElse(body.Name, user.Name),
                 !.Email = OrElse(body.Email, user.Email),
                 !.Age = OrElse(body.Age, user.Age),
                 !.UpdatedAt = now]

updateUserUpsert(u, n, now, id, body) ==
    IF body.Kind = "unreadable"
       THEN Outcome(u, n, FALSE,
                    respondWithError(StatusBadRequest, "Failed to read request body"))
    ELSE IF body.Kind # "json"
       THEN Outcome(u, n, FALSE,
                    respondWithError(StatusBadRequest, "Invalid JSON format"))
    ELSE LET old == IF id \in DOMAIN u
                       THEN u[id]
                       ELSE [ID |-> id, Name |-> <<>>, Email |-> <<>>,
                             Age |-> 0, CreatedAt |-> now, UpdatedAt |-> now]
             user == ApplyUpdate(old, body, now)
         IN  Outcome(MapPut(u, id, user), n, TRUE,
                     respondWithJSON(StatusOK, Some(user),
                                     "User updated successfully"))

updateUser(u, n, now, id, body) ==
    IF id \notin DOMAIN u
       THEN Outcome(u, n, FALSE, respondWithError(StatusNotFound, "User not found"))
    ELSE IF body.Kind = "unreadable"
       THEN Outcome(u, n, FALSE,
                    respondWithError(StatusBadRequest, "Failed to read request body"))
    ELSE IF body.Kind # "json"
       THEN Outcome(u, n, FALSE,
                    respondWithError(StatusBadRequest, "Invalid JSON format"))
    ELSE LET user == ApplyUpdate(u[id], body, now)
         IN  Outcome(MapPut(u, id, user), n, TRUE,
                     respondWithJSON(StatusOK, Some(user),
                                     "User updated successfully"))

deleteUserFreesID(u, n, id) ==
    IF id \notin DOMAIN u
       THEN Outcome(u, n, FALSE, respondWithError(StatusNotFound, "User not found"))
       ELSE Outcome(MapDelete(u, id), IF id = n - 1 THEN n - 1 ELSE n, FALSE,
                    respondWithJSON(StatusOK, None, "User deleted successfully"))

deleteUser(u, n, id) ==
    IF id \notin DOMAIN u
       THEN Outcome(u, n, FALSE, respondWithError(StatusNotFound, "User not found"))
       ELSE Outcome(MapDelete(u, id), n, FALSE,
                    respondWithJSON(StatusOK, None, "User deleted successfully"))

\* handleUser: extractUserID fails on a path whose id is not a number
handleUser(u, n, now, method, path, body) ==
    IF path = None
       THEN Outcome(u, n, FALSE, respondWithError(StatusBadRequest, "Invalid user ID"))
    ELSE IF method = "GET" THEN getUser(u, n, path[1])
    ELSE IF method = "PUT" THEN updateUser(u, n, now, path[1], body)
    ELSE deleteUser(u, n, path[1])

\* ---- the requests enumerated
CreateBodies ==
    {[Kind |-> "json", Name |-> a, Email |-> b, Age |-> c] :
        a \in {None, Some(<<" ">>), Some(<<"A">>)},
        b \in {None, Some(<<" ">>), Some(<<"a">>), Some(<<"a", "@">>)},
        c \in {None, Some(MinAge - 1), Some(MaxAge), Some(MaxAge + 1)}}

UpdateBodies ==
    {[Kind |-> "json", Name |-> a, Email |-> b, Age |-> c] :
        a \in {None, Some(<<"B">>)},
        b \in {None, Some(<<"b">>)},
        c \in {None, Some(MaxAge + 1)}}

BrokenBodies ==
    {[Kind |-> k, Name |-> None, Email |-> None, Age |-> None] :
        k \in {"unreadable", "malformed"}}

\* the ids a request may name: every id ever assigned and the next one
Paths == {None} \cup {Some(i) : i \in 1..nextUserID}

InitRest ==
    /\ users =
          MapPut(MapPut(<<>>, 1,
                        [ID |-> 1, Name |-> JohnName, Email |-> JohnEmail,
                         Age |-> JohnAge, CreatedAt |-> 0, UpdatedAt |-> 0]),
                 2,
                 [ID |-> 2, Name |-> JaneName, Email |-> JaneEmail,
                  Age |-> JaneAge,
                  CreatedAt |-> JohnHoursAgo - JaneHoursAgo,
                  UpdatedAt |-> JohnHoursAgo - JaneHoursAgo])
    /\ nextUserID = FirstFreeID
    /\ clock = JohnHoursAgo
    /\ req = NoRequest
    /\ pre = [users |-> <<>>, nextUserID |-> 0]
    /\ resp = NoResponse
    /\ IdlePool
    /\ IdleCtx
    /\ IdleCnt
    /\ IdlePr
    /\ IdlePl
    /\ IdleSd
    /\ IdleCc

\* the server is up: initializeData has run
Serving == nextUserID >= FirstFreeID

\* the store, the clock and the response after a handler has run
Handled(request, out) ==
    /\ req' = request
    /\ pre' = [users |-> users, nextUserID |-> nextUserID]
    /\ users' = out.users
    /\ nextUserID' = out.nextUserID
    /\ clock' = IF out.ticked THEN clock + 1 ELSE clock
    /\ resp' = out.resp
    /\ UNCHANGED <<poolVars, ctxVars, cntVars, prVars, plVars, sdVars, ccVars>>

\* time.Now() is called at most MaxTicks times
MayTick == clock < JohnHoursAgo + MaxTicks

PostUsers ==
    /\ Serving
    /\ MayTick
    /\ \E body \in CreateBodies \cup BrokenBodies :
          Handled([Method |-> "POST", Path |-> None, Body |-> body],
                  createUser(users, nextUserID, clock, body))

GetUser ==
    /\ Serving
    /\ \E path \in Paths :
          Handled([Method |-> "GET", Path |-> path, Body |-> NoBody],
                  handleUser(users, nextUserID, clock, "GET", path, NoBody))

PutUser ==
    /\ Serving
    /\ MayTick
    /\ \E path \in Paths, body \in UpdateBodies \cup BrokenBodies :
          Handled([Method |-> "PUT", Path |-> path, Body |-> body],
                  handleUser(users, nextUserID, clock, "PUT", path, body))

DeleteUser ==
    /\ Serving
    /\ \E path \in Paths :
          Handled([Method |-> "DELETE", Path |-> path, Body |-> NoBody],
                  handleUser(users, nextUserID, clock, "DELETE", path, NoBody))

NextRest == PostUsers \/ GetUser \/ PutUser \/ DeleteUser

SpecRest == InitRest /\ [][NextRest]_vars

\* ================= pipeline generateNumbers -> squareNumbers -> printNumbers
InitPlArgs(count) ==
    /\ plCount = count
    /\ plMainPc = "generate"
    /\ genPc = "unborn"
    /\ genI = 0
    /\ sqPc = "unborn"
    /\ sqNum = 0
    /\ prnNum = 0
    /\ plPrinted = <<>>
    /\ plSent1 = <<>>
    /\ plSent2 = <<>>
    /\ ch1Closers = <<>>
    /\ ch2Closers = <<>>
    /\ plPanicked = FALSE
    /\ IdlePool
    /\ IdleCtx
    /\ IdleCnt
    /\ IdlePr
    /\ IdleRest
    /\ IdleSd
    /\ IdleCc

InitPl == \E count \in (0..MaxCount) \cup {PipelineCount} : InitPlArgs(count)

PlAlive == ~plPanicked

\* num * num
SquareTwice(n) == n + n

Square(n) == n * n

\* numbers := generateNumbers(5): make(chan int), go func, return ch
PlMainGenerate ==
    /\ PlAlive
    /\ plMainPc = "generate"
    /\ genPc' = "loop"
    /\ genI' = 1
    /\ plMainPc' = "square"
    /\ UNCHANGED <<plCount, sqPc, sqNum, prnNum, plPrinted, plSent1, plSent2,
                   ch1Closers, ch2Closers, plPanicked>>
    /\ UNCHANGED <<poolVars, ctxVars, cntVars, prVars, restVars, sdVars, ccVars>>

\* squares := squareNumbers(numbers), then printNumbers(squares) is called
PlMainSquare ==
    /\ PlAlive
    /\ plMainPc = "square"
    /\ sqPc' = "range"
    /\ plMainPc' = "range"
    /\ UNCHANGED <<plCount, genPc, genI, sqNum, prnNum, plPrinted, plSent1,
                   plSent2, ch1Closers, ch2Closers, plPanicked>>
    /\ UNCHANGED <<poolVars, ctxVars, cntVars, prVars, restVars, sdVars, ccVars>>

\* for i := 1; i <= count; i++
GenLoop ==
    /\ PlAlive
    /\ genPc = "loop"
    /\ genPc' = IF genI <= plCount THEN "send" ELSE "close"
    /\ UNCHANGED <<plCount, plMainPc, genI, sqPc, sqNum, prnNum, plPrinted,
                   plSent1, plSent2, ch1Closers, ch2Closers, plPanicked>>
    /\ UNCHANGED <<poolVars, ctxVars, cntVars, prVars, restVars, sdVars, ccVars>>

\* ch <- i meets squareNumbers' range: the channel has no buffer
GenSend ==
    /\ PlAlive
    /\ genPc = "send"
    /\ IF ch1Closers # <<>>
          THEN /\ plPanicked' = TRUE
               /\ UNCHANGED <<genPc, genI, sqPc, sqNum, plSent1>>
          ELSE /\ sqPc = "range"
               /\ sqNum' = genI
               /\ sqPc' = "send"
               /\ plSent1' = Append(plSent1, genI)
               /\ genI' = genI + 1
               /\ genPc' = "loop"
               /\ UNCHANGED plPanicked
    /\ UNCHANGED <<plCount, plMainPc, prnNum, plPrinted, plSent2, ch1Closers,
                   ch2Closers>>
    /\ UNCHANGED <<poolVars, ctxVars, cntVars, prVars, restVars, sdVars, ccVars>>

\* defer close(ch) of generateNumbers
GenClose ==
    /\ PlAlive
    /\ genPc = "close"
    /\ ch1Closers' = Append(ch1Closers, "gen")
    /\ plPanicked' = (ch1Closers # <<>>)
    /\ genPc' = "closed"
    /\ UNCHANGED <<plCount, plMainPc, genI, sqPc, sqNum, prnNum, plPrinted,
                   plSent1, plSent2, ch2Closers>>
    /\ UNCHANGED <<poolVars, ctxVars, cntVars, prVars, restVars, sdVars, ccVars>>

GenExit ==
    /\ PlAlive
    /\ genPc = "closed"
    /\ genPc' = "exit"
    /\ UNCHANGED <<plCount, plMainPc, genI, sqPc, sqNum, prnNum, plPrinted,
                   plSent1, plSent2, ch1Closers, ch2Closers, plPanicked>>
    /\ UNCHANGED <<poolVars, ctxVars, cntVars, prVars, restVars, sdVars, ccVars>>

\* for num := range input ends when input is closed
SqRangeEnd ==
    /\ PlAlive
    /\ sqPc = "range"
    /\ ch1Closers # <<>>
    /\ sqPc' = "close"
    /\ UNCHANGED <<plCount, plMainPc, genPc, genI, sqNum, prnNum, plPrinted,
                   plSent1, plSent2, ch1Closers, ch2Closers, plPanicked>>
    /\ UNCHANGED <<poolVars, ctxVars, cntVars, prVars, restVars, sdVars, ccVars>>

\* ch <- num * num meets printNumbers' range
SqSend ==
    /\ PlAlive
    /\ sqPc = "send"
    /\ IF ch2Closers # <<>>
          THEN /\ plPanicked' = TRUE
               /\ UNCHANGED <<sqPc, plMainPc, prnNum, plSent2>>
          ELSE /\ plMainPc = "range"
               /\ prnNum' = Square(sqNum)
               /\ plMainPc' = "printf"
               /\ plSent2' = Append(plSent2, Square(sqNum))
               /\ sqPc' = "range"
               /\ UNCHANGED plPanicked
    /\ UNCHANGED <<plCount, genPc, genI, sqNum, plPrinted, plSent1, ch1Closers,
                   ch2Closers>>
    /\ UNCHANGED <<poolVars, ctxVars, cntVars, prVars, restVars, sdVars, ccVars>>

\* defer close(ch) of squareNumbers
SqCloseInputToo ==
    /\ PlAlive
    /\ sqPc = "close"
    /\ ch1Closers' = Append(ch1Closers, "sq")
    /\ ch2Closers' = Append(ch2Closers, "sq")
    /\ plPanicked' = TRUE
    /\ sqPc' = "closed"
    /\ UNCHANGED <<plCount, plMainPc, genPc, genI, sqNum, prnNum, plPrinted,
                   plSent1, plSent2>>
    /\ UNCHANGED <<poolVars, ctxVars, cntVars, prVars, restVars, sdVars, ccVars>>

SqClose ==
    /\ PlAlive
    /\ sqPc = "close"
    /\ ch2Closers' = Append(ch2Closers, "sq")
    /\ plPanicked' = (ch2Closers # <<>>)
    /\ sqPc' = "closed"
    /\ UNCHANGED <<plCount, plMainPc, genPc, genI, sqNum, prnNum, plPrinted,
                   plSent1, plSent2, ch1Closers>>
    /\ UNCHANGED <<poolVars, ctxVars, cntVars, prVars, restVars, sdVars, ccVars>>

SqExit ==
    /\ PlAlive
    /\ sqPc = "closed"
    /\ sqPc' = "exit"
    /\ UNCHANGED <<plCount, plMainPc, genPc, genI, sqNum, prnNum, plPrinted,
                   plSent1, plSent2, ch1Closers, ch2Closers, plPanicked>>
    /\ UNCHANGED <<poolVars, ctxVars, cntVars, prVars, restVars, sdVars, ccVars>>

\* fmt.Printf("Pipeline result: %d\n", num)
PrnPrint ==
    /\ PlAlive
    /\ plMainPc = "printf"
    /\ plPrinted' = Append(plPrinted, prnNum)
    /\ plMainPc' = "range"
    /\ UNCHANGED <<plCount, genPc, genI, sqPc, sqNum, prnNum, plSent1, plSent2,
                   ch1Closers, ch2Closers, plPanicked>>
    /\ UNCHANGED <<poolVars, ctxVars, cntVars, prVars, restVars, sdVars, ccVars>>

\* printNumbers' range ends when squareNumbers' channel is closed
PrnReturn ==
    /\ PlAlive
    /\ plMainPc = "range"
    /\ ch2Closers # <<>>
    /\ plMainPc' = "done"
    /\ UNCHANGED <<plCount, genPc, genI, sqPc, sqNum, prnNum, plPrinted,
                   plSent1, plSent2, ch1Closers, ch2Closers, plPanicked>>
    /\ UNCHANGED <<poolVars, ctxVars, cntVars, prVars, restVars, sdVars, ccVars>>

PlMain == PlMainGenerate \/ PlMainSquare \/ PrnPrint \/ PrnReturn

generateNumbers == GenLoop \/ GenSend \/ GenClose \/ GenExit

squareNumbers == SqRangeEnd \/ SqSend \/ SqClose \/ SqExit

NextPl == PlMain \/ generateNumbers \/ squareNumbers

SpecPl == InitPl /\ [][NextPl]_vars

FairSpecPl ==
    /\ SpecPl
    /\ WF_vars(PlMain)
    /\ WF_vars(generateNumbers)
    /\ WF_vars(squareNumbers)

\* 1, 2, ..., n and their squares
UpTo(n) == [i \in 1..n |-> i]

Squares(n) == [i \in 1..n |-> i * i]

IsPrefix(s, t) == Len(s) <= Len(t) /\ SubSeq(t, 1, Len(s)) = s

PlAllDone == plMainPc = "done" /\ genPc = "exit" /\ sqPc = "exit"

\* ================================================ SafeData under sync.RWMutex
InitSd ==
    /\ sdPhase = "readers"
    /\ sdI = 0
    /\ rdPc = [rd \in 1..SdReaders |-> "unborn"]
    /\ rdJ = [rd \in 1..SdReaders |-> 0]
    /\ rdValue = [rd \in 1..SdReaders |-> ""]
    /\ rdSeen = [rd \in 1..SdReaders |-> ""]
    /\ wrPc = "unborn"
    /\ wrI = 0
    /\ rwReaders = 0
    /\ rwWriter = FALSE
    /\ rwPending = FALSE
    /\ sdData = <<>>
    /\ sdLastWrite = ""
    /\ IdlePool
    /\ IdleCtx
    /\ IdleCnt
    /\ IdlePr
    /\ IdleRest
    /\ IdlePl
    /\ IdleCc

\* fmt.Sprintf("value-%d", i)
Sprintf(i) == <<"value-0", "value-1", "value-2">>[i + 1]

\* d.data[key]: the empty string when the key is absent
MapGet(d, key) == IF key \in DOMAIN d THEN d[key] ELSE ""

\* for i := 0; i < 3; i++ { go func(id int) {...}(i) }
SdMainSpawnReader ==
    /\ sdPhase = "readers"
    /\ sdI < SdReaders
    /\ rdPc' = [rdPc EXCEPT ![sdI + 1] = "loop"]
    /\ sdI' = sdI + 1
    /\ sdPhase' = IF sdI + 1 < SdReaders THEN "readers" ELSE "writer"
    /\ UNCHANGED <<rdJ, rdValue, rdSeen, wrPc, wrI, rwReaders, rwWriter,
                   rwPending, sdData, sdLastWrite>>
    /\ UNCHANGED <<poolVars, ctxVars, cntVars, prVars, restVars, plVars, ccVars>>

\* go func() { for i := 0; i < 3; i++ { data.Write(...) } }()
SdMainSpawnWriter ==
    /\ sdPhase = "writer"
    /\ wrPc' = "loop"
    /\ sdPhase' = "sleep"
    /\ UNCHANGED <<sdI, rdPc, rdJ, rdValue, rdSeen, wrI, rwReaders, rwWriter,
                   rwPending, sdData, sdLastWrite>>
    /\ UNCHANGED <<poolVars, ctxVars, cntVars, prVars, restVars, plVars, ccVars>>

\* time.Sleep(2 * time.Second) is over: demonstrateSynchronization returns
SdMainReturn ==
    /\ sdPhase = "sleep"
    /\ sdPhase' = "returned"
    /\ UNCHANGED <<sdI, rdPc, rdJ, rdValue, rdSeen, wrPc, wrI, rwReaders,
                   rwWriter, rwPending, sdData, sdLastWrite>>
    /\ UNCHANGED <<poolVars, ctxVars, cntVars, prVars, restVars, plVars, ccVars>>

\* Read: d.mu.RLock() waits while a writer holds the lock or waits for it
RdRLockNoWait(rd) ==
    /\ rd \in DOMAIN rdPc
    /\ rdPc[rd] = "loop"
    /\ rdJ[rd] < SdReads
    /\ rwReaders' = rwReaders + 1
    /\ rdPc' = [rdPc EXCEPT ![rd] = "read"]
    /\ UNCHANGED <<sdPhase, sdI, rdJ, rdValue, rdSeen, wrPc, wrI, rwWriter,
                   rwPending, sdData, sdLastWrite>>
    /\ UNCHANGED <<poolVars, ctxVars, cntVars, prVars, restVars, plVars, ccVars>>

RdRLock(rd) ==
    /\ rd \in DOMAIN rdPc
    /\ rdPc[rd] = "loop"
    /\ rdJ[rd] < SdReads
    /\ ~rwWriter
    /\ ~rwPending
    /\ rwReaders' = rwReaders + 1
    /\ rdPc' = [rdPc EXCEPT ![rd] = "read"]
    /\ UNCHANGED <<sdPhase, sdI, rdJ, rdValue, rdSeen, wrPc, wrI, rwWriter,
                   rwPending, sdData, sdLastWrite>>
    /\ UNCHANGED <<poolVars, ctxVars, cntVars, prVars, restVars, plVars, ccVars>>

\* return d.data[key]
RdRead(rd) ==
    /\ rd \in DOMAIN rdPc
    /\ rdPc[rd] = "read"
    /\ rdValue' = [rdValue EXCEPT ![rd] = MapGet(sdData, "key")]
    /\ rdSeen' = [rdSeen EXCEPT ![rd] = sdLastWrite]
    /\ rdPc' = [rdPc EXCEPT ![rd] = "runlock"]
    /\ UNCHANGED <<sdPhase, sdI, rdJ, wrPc, wrI, rwReaders, rwWriter,
                   rwPending, sdData, sdLastWrite>>
    /\ UNCHANGED <<poolVars, ctxVars, cntVars, prVars, restVars, plVars, ccVars>>

\* defer d.mu.RUnlock()
RdRUnlock(rd) ==
    /\ rd \in DOMAIN rdPc
    /\ rdPc[rd] = "runlock"
    /\ rwReaders' = rwReaders - 1
    /\ rdPc' = [rdPc EXCEPT ![rd] = "print"]
    /\ UNCHANGED <<sdPhase, sdI, rdJ, rdValue, rdSeen, wrPc, wrI, rwWriter,
                   rwPending, sdData, sdLastWrite>>
    /\ UNCHANGED <<poolVars, ctxVars, cntVars, prVars, restVars, plVars, ccVars>>

\* Printf("Reader %d read: %s"), Sleep, j++
RdPrint(rd) ==
    /\ rd \in DOMAIN rdPc
    /\ rdPc[rd] = "print"
    /\ rdJ' = [rdJ EXCEPT ![rd] = rdJ[rd] + 1]
    /\ rdPc' = [rdPc EXCEPT ![rd] = "loop"]
    /\ UNCHANGED <<sdPhase, sdI, rdValue, rdSeen, wrPc, wrI, rwReaders,
                   rwWriter, rwPending, sdData, sdLastWrite>>
    /\ UNCHANGED <<poolVars, ctxVars, cntVars, prVars, restVars, plVars, ccVars>>

RdExit(rd) ==
    /\ rd \in DOMAIN rdPc
    /\ rdPc[rd] = "loop"
    /\ rdJ[rd] >= SdReads
    /\ rdPc' = [rdPc EXCEPT ![rd] = "exit"]
    /\ UNCHANGED <<sdPhase, sdI, rdJ, rdValue, rdSeen, wrPc, wrI, rwReaders,
                   rwWriter, rwPending, sdData, sdLastWrite>>
    /\ UNCHANGED <<poolVars, ctxVars, cntVars, prVars, restVars, plVars, ccVars>>

\* Write: d.mu.Lock() first keeps new readers out ...
WrLockAnnounce ==
    /\ wrPc = "loop"
    /\ wrI < SdWrites
    /\ rwPending' = TRUE
    /\ wrPc' = "lock"
    /\ UNCHANGED <<sdPhase, sdI, rdPc, rdJ, rdValue, rdSeen, wrI, rwReaders,
                   rwWriter, sdData, sdLastWrite>>
    /\ UNCHANGED <<poolVars, ctxVars, cntVars, prVars, restVars, plVars, ccVars>>

\* ... and returns when the readers that hold the lock have released it
WrLockAcquire ==
    /\ wrPc = "lock"
    /\ rwReaders = 0
    /\ ~rwWriter
    /\ rwWriter' = TRUE
    /\ rwPending' = FALSE
    /\ wrPc' = "store"
    /\ UNCHANGED <<sdPhase, sdI, rdPc, rdJ, rdValue, rdSeen, wrI, rwReaders,
                   sdData, sdLastWrite>>
    /\ UNCHANGED <<poolVars, ctxVars, cntVars, prVars, restVars, plVars, ccVars>>

\* d.data[key] = value
WrStore ==
    /\ wrPc = "store"
    /\ sdData' = MapPut(sdData, "key", Sprintf(wrI))
    /\ wrPc' = "unlock"
    /\ UNCHANGED <<sdPhase, sdI, rdPc, rdJ, rdValue, rdSeen, wrI, rwReaders,
                   rwWriter, rwPending, sdLastWrite>>
    /\ UNCHANGED <<poolVars, ctxVars, cntVars, prVars, restVars, plVars, ccVars>>

\* Printf("Wrote %s=%s"), defer d.mu.Unlock(): the Write is complete
WrUnlock ==
    /\ wrPc = "unlock"
    /\ rwWriter' = FALSE
    /\ sdLastWrite' = Sprintf(wrI)
    /\ wrI' = wrI + 1
    /\ wrPc' = "loop"
    /\ UNCHANGED <<sdPhase, sdI, rdPc, rdJ, rdValue, rdSeen, rwReaders,
                   rwPending, sdData>>
    /\ UNCHANGED <<poolVars, ctxVars, cntVars, prVars, restVars, plVars, ccVars>>

WrExit ==
    /\ wrPc = "loop"
    /\ wrI >= SdWrites
    /\ wrPc' = "exit"
    /\ UNCHANGED <<sdPhase, sdI, rdPc, rdJ, rdValue, rdSeen, wrI, rwReaders,
                   rwWriter, rwPending, sdData, sdLastWrite>>
    /\ UNCHANGED <<poolVars, ctxVars, cntVars, prVars, restVars, plVars, ccVars>>

NextSd ==
    \/ SdMainSpawnReader
    \/ SdMainSpawnWriter
    \/ SdMainReturn
    \/ \E rd \in DOMAIN rdPc : RdRLock(rd)
    \/ \E rd \in DOMAIN rdPc : RdRead(rd)
    \/ \E rd \in DOMAIN rdPc : RdRUnlock(rd)
    \/ \E rd \in DOMAIN rdPc : RdPrint(rd)
    \/ \E rd \in DOMAIN rdPc : RdExit(rd)
    \/ WrLockAnnounce
    \/ WrLockAcquire
    \/ WrStore
    \/ WrUnlock
    \/ WrExit

SpecSd == InitSd /\ [][NextSd]_vars

\* the readers inside Read's critical section, the writer inside Write's
Reading == {rd \in DOMAIN rdPc : rdPc[rd] \in {"read", "runlock"}}

Writing == wrPc \in {"store", "unlock"}

\* ===================== createUser handlers of concurrent POST requests
\* net/http runs each request's handler in its own goroutine
Handlers == {1, 2}

\* the valid payload of each request
CcBody(h) ==
    [Kind |-> "json",
     Name |-> Some(IF h = 1 THEN <<"A">> ELSE <<"B">>),
     Email |-> Some(<<"a", "@">>),
     Age |-> Some(MaxAge)]

InitCc ==
    /\ users =
          MapPut(MapPut(<<>>, 1,
                        [ID |-> 1, Name |-> JohnName, Email |-> JohnEmail,
                         Age |-> JohnAge, CreatedAt |-> 0, UpdatedAt |-> 0]),
                 2,
                 [ID |-> 2, Name |-> JaneName, Email |-> JaneEmail,
                  Age |-> JaneAge,
                  CreatedAt |-> JohnHoursAgo - JaneHoursAgo,
                  UpdatedAt |-> JohnHoursAgo - JaneHoursAgo])
    /\ nextUserID = FirstFreeID
    /\ clock = JohnHoursAgo
    /\ req = NoRequest
    /\ pre = [users |-> <<>>, nextUserID |-> 0]
    /\ resp = NoResponse
    /\ ccPc = [h \in Handlers |-> "start"]
    /\ ccNow = [h \in Handlers |-> 0]
    /\ ccUser = [h \in Handlers |-> None]
    /\ ccKey = [h \in Handlers |-> 0]
    /\ ccTmp = [h \in Handlers |-> 0]
    /\ ccResp = [h \in Handlers |-> 0]
    /\ ccCrashed = FALSE
    /\ IdlePool
    /\ IdleCtx
    /\ IdleCnt
    /\ IdlePr
    /\ IdlePl
    /\ IdleSd

\* io.ReadAll, json.Unmarshal and validateCreateUserRequest pass
CcValidate(h) ==
    /\ ~ccCrashed
    /\ ccPc[h] = "start"
    /\ Len(validateCreateUserRequest(DecodeCreate(CcBody(h)))) = 0
    /\ ccPc' = [ccPc EXCEPT ![h] = "now"]
    /\ UNCHANGED <<ccNow, ccUser, ccKey, ccTmp, ccResp, ccCrashed>>
    /\ UNCHANGED <<poolVars, ctxVars, cntVars, prVars, restVars, plVars, sdVars>>

\* now := time.Now()
CcNow(h) ==
    /\ ~ccCrashed
    /\ ccPc[h] = "now"
    /\ ccNow' = [ccNow EXCEPT ![h] = clock]
    /\ clock' = clock + 1
    /\ ccPc' = [ccPc EXCEPT ![h] = "build"]
    /\ UNCHANGED <<users, nextUserID, req, pre, resp>>
    /\ UNCHANGED <<ccUser, ccKey, ccTmp, ccResp, ccCrashed>>
    /\ UNCHANGED <<poolVars, ctxVars, cntVars, prVars, plVars, sdVars>>

\* user := User{ID: nextUserID, ...}
CcBuild(h) ==
    /\ ~ccCrashed
    /\ ccPc[h] = "build"
    /\ ccUser' = [ccUser EXCEPT ![h] =
                     Some([ID |-> nextUserID,
                           Name |-> DecodeCreate(CcBody(h)).Name,
                           Email |-> DecodeCreate(CcBody(h)).Email,
                           Age |-> DecodeCreate(CcBody(h)).Age,
                           CreatedAt |-> ccNow[h],
                           UpdatedAt |-> ccNow[h]])]
    /\ ccPc' = [ccPc EXCEPT ![h] = "store"]
    /\ UNCHANGED <<ccNow, ccKey, ccTmp, ccResp, ccCrashed>>
    /\ UNCHANGED <<poolVars, ctxVars, cntVars, prVars, restVars, plVars, sdVars>>

\* users[nextUserID] = user begins: the key is evaluated; if another
\* handler is inside its own map write the runtime may detect it and die,
\* or not
CcStoreBegin(h) ==
    /\ ~ccCrashed
    /\ ccPc[h] = "store"
    /\ ccKey' = [ccKey EXCEPT ![h] = nextUserID]
    /\ ccPc' = [ccPc EXCEPT ![h] = "storing"]
    /\ \/ UNCHANGED ccCrashed
       \/ /\ \E g \in Handlers \ {h} : ccPc[g] = "storing"
          /\ ccCrashed' = TRUE
    /\ UNCHANGED <<ccNow, ccUser, ccTmp, ccResp>>
    /\ UNCHANGED <<poolVars, ctxVars, cntVars, prVars, restVars, plVars, sdVars>>

\* the map write ends
CcStoreEnd(h) ==
    /\ ~ccCrashed
    /\ ccPc[h] = "storing"
    /\ users' = MapPut(users, ccKey[h], ccUser[h][1])
    /\ ccPc' = [ccPc EXCEPT ![h] = "load"]
    /\ UNCHANGED <<nextUserID, clock, req, pre, resp>>
    /\ UNCHANGED <<ccNow, ccUser, ccKey, ccTmp, ccResp, ccCrashed>>
    /\ UNCHANGED <<poolVars, ctxVars, cntVars, prVars, plVars, sdVars>>

\* nextUserID++ reads nextUserID ...
CcIncrLoad(h) ==
    /\ ~ccCrashed
    /\ ccPc[h] = "load"
    /\ ccTmp' = [ccTmp EXCEPT ![h] = nextUserID]
    /\ ccPc' = [ccPc EXCEPT ![h] = "incr"]
    /\ UNCHANGED <<ccNow, ccUser, ccKey, ccResp, ccCrashed>>
    /\ UNCHANGED <<poolVars, ctxVars, cntVars, prVars, restVars, plVars, sdVars>>

\* ... and writes the value read plus one
CcIncrStore(h) ==
    /\ ~ccCrashed
    /\ ccPc[h] = "incr"
    /\ nextUserID' = ccTmp[h] + 1
    /\ ccPc' = [ccPc EXCEPT ![h] = "respond"]
    /\ UNCHANGED <<users, clock, req, pre, resp>>
    /\ UNCHANGED <<ccNow, ccUser, ccKey, ccTmp, ccResp, ccCrashed>>
    /\ UNCHANGED <<poolVars, ctxVars, cntVars, prVars, plVars, sdVars>>

\* respondWithJSON(w, http.StatusCreated, APIResponse{Data: user, ...})
CcRespond(h) ==
    /\ ~ccCrashed
    /\ ccPc[h] = "respond"
    /\ ccResp' = [ccResp EXCEPT ![h] = ccUser[h][1].ID]
    /\ ccPc' = [ccPc EXCEPT ![h] = "done"]
    /\ UNCHANGED <<ccNow, ccUser, ccKey, ccTmp, ccCrashed>>
    /\ UNCHANGED <<poolVars, ctxVars, cntVars, prVars, restVars, plVars, sdVars>>

NextCc ==
    \/ \E h \in Handlers : CcValidate(h)
    \/ \E h \in Handlers : CcNow(h)
    \/ \E h \in Handlers : CcBuild(h)
    \/ \E h \in Handlers : CcStoreBegin(h)
    \/ \E h \in Handlers : CcStoreEnd(h)
    \/ \E h \in Handlers : CcIncrLoad(h)
    \/ \E h \in Handlers : CcIncrStore(h)
    \/ \E h \in Handlers : CcRespond(h)

SpecCc == InitCc /\ [][NextCc]_vars

\* ---------------------------------------------------------------- claims
\* C1: the collector receives exactly numJobs results, in bijection with the
\* jobs: every value collected is 2*k for a job k in 1..numJobs, no value is
\* collected twice, and when the collect loop has finished every job k has
\* contributed exactly one result 2*k.
C1_ResultsBijection ==
    /\ Len(collected) <= numJobs
    /\ \A i \in 1..Len(collected) : \E k \in 1..numJobs : collected[i] = 2 * k
    /\ NoDup(collected)
    /\ mainpc = "done" =>
          /\ Len(collected) = numJobs
          /\ \A k \in 1..numJobs : Count(collected, 2 * k) = 1

C1_Witness ==
    /\ mainpc = "done"
    /\ numJobs = MaxJobs
    /\ numWorkers >= 2
    /\ collected[1] > collected[2]

\* C2 as stated: for every job count no reachable state has the caller and
\* all workers blocked.
C2_NoDeadlockAnyN == ~Deadlocked

\* C2 amended: when numJobs is at most cap(jobs) + cap(results) + numWorkers
\* no state is deadlocked and, under fair scheduling, the caller finishes
\* collecting; this covers numJobs = 0.
C2_TerminatesWithinCapacity ==
    (numJobs <= JobsCap + ResultsCap + numWorkers) =>
        ([]~Deadlocked /\ <>(mainpc = "done"))

C2_Witness ==
    /\ mainpc = "done"
    /\ numJobs = JobsCap + ResultsCap + numWorkers
    /\ Len(collected) = numJobs

\* C3: no job is received twice from the jobs channel, and two workers never
\* hold the same job at the same time.
C3_NoDuplicateReceive ==
    /\ NoDup(recvLog)
    /\ \A a, b \in DOMAIN wpc :
          (a # b /\ wpc[a] = "send" /\ wpc[b] = "send") => wjob[a] # wjob[b]

C3_Witness ==
    /\ Len(recvLog) >= 3
    /\ \E a, b \in DOMAIN wpc : a # b /\ wpc[a] = "send" /\ wpc[b] = "send"

C5_ClosingDiscipline ==
    /\ [](/\ Len(jobsClosers) <= 1
          /\ \A i \in 1..Len(jobsClosers) : jobsClosers[i] = "main"
          /\ jobsClosed <=> (Len(jobsClosers) = 1)
          /\ jobsClosed => Len(sentJobs) = numJobs
          /\ ~panicked)
    /\ [][/\ jobsClosed => (sentJobs' = sentJobs /\ jobsClosed')
          /\ (sentJobs' # sentJobs \/ jobsClosers' # jobsClosers) =>
                (mainpc = "send" /\ wpc' = wpc /\ wjob' = wjob)]_vars

C5_Witness ==
    /\ jobsClosed
    /\ numJobs = MaxJobs
    /\ jobsClosers = <<"main">>
    /\ \E id \in DOMAIN wpc : wpc[id] = "exit"

\* C6: under fair scheduling, once the jobs channel is closed every worker
\* eventually returns, and the pool's phase INIT -> RUNNING -> DRAINING ->
\* DONE never moves backwards.
C6_WorkersTerminate ==
    /\ jobsClosed ~> AllExited
    /\ [][PhaseRank' >= PhaseRank]_vars
    /\ [][\A id \in DOMAIN wpc : wpc[id] = "exit" => wpc'[id] = "exit"]_vars

C6_Witness ==
    /\ jobsClosed
    /\ AllExited
    /\ numWorkers = MaxWorkers
    /\ numJobs = MaxJobs

\* C7: at every moment the jobs sent so far are 1, 2, ..., k in this order
\* for some k <= numJobs, and the jobs channel is closed only when
\* k = numJobs.
C7_AscendingPrefix ==
    /\ Len(sentJobs) <= numJobs
    /\ \A i \in 1..Len(sentJobs) : sentJobs[i] = i
    /\ jobsClosed => Len(sentJobs) = numJobs

C7_Witness ==
    /\ jobsClosed
    /\ numJobs = MaxJobs
    /\ sentJobs = [i \in 1..MaxJobs |-> i]

\* C8 as stated: the caller is never blocked by job submission, whatever
\* the number of jobs.
C8_NeverBlockedOnSubmission == ~MainBlockedOnSend

\* C8 amended: the caller itself sends the jobs and closes the channel
\* before it collects anything, and it is never blocked by job submission
\* when numJobs does not exceed the capacity of the jobs channel.
C8_InlineSourceWithinCapacity ==
    /\ (numJobs <= JobsCap) => ~MainBlockedOnSend
    /\ (mainpc \in {"collect", "done"} \/ Len(collected) > 0) =>
          (jobsClosed /\ Len(sentJobs) = numJobs)

C8_Witness ==
    /\ numJobs = JobsCap
    /\ Len(jobs) = JobsCap
    /\ mainpc = "collect"
    /\ Len(collected) = 0

\* C9: with 9 jobs and 3 workers, in every interleaving the collected
\* results are the set {2,4,6,8,10,12,14,16,18} and their sum is 90.
C9_DemoAggregate ==
    mainpc = "done" =>
        /\ Len(collected) = 9
        /\ SeqSet(collected) = {2, 4, 6, 8, 10, 12, 14, 16, 18}
        /\ SeqSum(collected) = 90

C9_Witness ==
    /\ mainpc = "done"
    /\ numJobs = 9
    /\ numWorkers = 3
    /\ collected[1] = 6
    /\ collected[9] = 2

\* C10 as stated: with 5 jobs and 5 workers all 5 results are produced and
\* no worker is ever blocked on the jobs channel.
C10_NoWorkerWaitsOnIntake ==
    /\ mainpc = "done" => Len(collected) = 5
    /\ \A id \in DOMAIN wpc : ~WorkerBlockedOnIntake(id)

\* C10 amended: with 5 jobs and 5 workers the collector receives exactly
\* the 5 results 2, 4, 6, 8, 10, each once, and under fair scheduling it
\* does finish collecting (workers do wait on the empty jobs channel).
C10_OnePerJobResults ==
    /\ [](mainpc = "done" =>
            /\ Len(collected) = 5
            /\ SeqSet(collected) = {2, 4, 6, 8, 10})
    /\ <>(mainpc = "done")

C10_Witness ==
    /\ mainpc = "done"
    /\ numJobs = 5
    /\ numWorkers = 5
    /\ Len(collected) = 5
    /\ \E id \in DOMAIN wpc : wpc[id] = "range"

\* C11 as stated: with one worker, for any number of jobs, the results are
\* collected in submission order 2, 4, ..., and the run terminates.
C11_SingleWorkerAnyN ==
    (numWorkers = 1) =>
        /\ [](\A i \in 1..Len(collected) : collected[i] = 2 * i)
        /\ <>(mainpc = "done")

\* C11 amended: with one worker the results are collected in submission
\* order 2, 4, ... for any number of jobs, and the run terminates when
\* numJobs is at most cap(jobs) + cap(results) + 1.
C11_SingleWorkerSequential ==
    (numWorkers = 1) =>
        /\ [](\A i \in 1..Len(collected) : collected[i] = 2 * i)
        /\ [](\A i \in 1..Len(Produced) : Produced[i] = 2 * i)
        /\ (numJobs <= JobsCap + ResultsCap + 1) => <>(mainpc = "done")

C11_Witness ==
    /\ numWorkers = 1
    /\ numJobs = JobsCap + 1
    /\ mainpc = "done"
    /\ collected[numJobs] = 2 * numJobs

\* C12: nothing orders the workers' sends: whenever two workers hold jobs
\* and the results channel has room, the worker holding the later job can
\* send its result first, so results can arrive out of submission order.
C12_NoOrderingGuarantee ==
    \A a, b \in 1..MaxWorkers :
        (/\ a \in DOMAIN wpc
         /\ b \in DOMAIN wpc
         /\ wpc[a] = "send"
         /\ wpc[b] = "send"
         /\ wjob[a] < wjob[b]
         /\ ChanCanSend(results, ResultsCap)) => ENABLED WorkerSend(b)

C12_Witness ==
    /\ numWorkers >= 2
    /\ numJobs >= 2
    /\ \E i, k \in 1..Len(Produced) : i < k /\ Produced[i] > Produced[k]

\* C13: the collector performs exactly numJobs receives from results, the
\* results channel is never closed, and no send on results panics.
C13_CollectorReceives ==
    /\ Len(collected) = r - 1
    /\ Len(collected) <= numJobs
    /\ mainpc = "done" => Len(collected) = numJobs
    /\ mainpc \in {"spawn", "send"} => Len(collected) = 0
    /\ ~resultsClosed
    /\ ~panicked

C13_Witness ==
    /\ mainpc = "done"
    /\ numJobs = MaxJobs
    /\ Len(collected) = MaxJobs
    /\ \E id \in DOMAIN wpc : wpc[id] = "range"

\* C14: the buffers never hold more than their capacities, and a worker
\* that cannot send because results is full keeps its job and its position
\* until there is room; when it leaves the send, its result 2*job has been
\* appended to results.
C14_Backpressure ==
    /\ [](Len(jobs) <= JobsCap /\ Len(results) <= ResultsCap)
    /\ [][\A id \in DOMAIN wpc :
            /\ WorkerBlockedOnResults(id) =>
                  (wpc'[id] = "send" /\ wjob'[id] = wjob[id])
            /\ (wpc[id] = "send" /\ wpc'[id] # "send") =>
                  results' = Append(results, 2 * wjob[id])]_vars

C14_Witness ==
    /\ Len(results) = ResultsCap
    /\ Len(jobs) = JobsCap
    /\ \E id \in DOMAIN wpc : WorkerBlockedOnResults(id)

\* C15: once cancel is closed the operation goroutine starts no further
\* "Working... step" iteration; a check of the select made after the close
\* reports "Operation cancelled!" and goes straight to the deferred send;
\* cancelled and completed are never both reported; and, under fair
\* scheduling, if a check remains when cancel is closed then cancelled is
\* eventually reported and the goroutine exits.
C15_CancelSeenAtNextCheck ==
    /\ [][cancelClosed => "step" \notin NewLines]_vars
    /\ [][(cancelClosed /\ opPc = "select" /\ opI < OpSteps /\ opPc' # opPc)
            => (NewLines = {"cancelled"} /\ opPc' = "defer")]_vars
    /\ []~(Reported("cancelled") /\ Reported("completed"))
    /\ (cancelClosed /\ NextCheckExists) ~>
          (Reported("cancelled") /\ opPc \in {"defer", "exit"})

C15_Witness ==
    /\ cancelClosed
    /\ Reported("cancelled")
    /\ ~Reported("completed")
    /\ Len(ctxLog) = 6
    /\ opPc = "exit"

\* C16: the panic raised in the goroutine never kills the process: it is
\* recovered by the deferred function before the completion signal, the
\* goroutine sends exactly one value on done, and under fair scheduling the
\* caller gets past <-done and returns.
C16_GoroutinePanicContained ==
    /\ []~prCrashed
    /\ [](prDoneSends <= 1)
    /\ [](prGoPc \in {"sendDone", "return", "exit"} => prPanic = None)
    /\ [](prGoPc \in {"return", "exit"} => prDoneSends = 1)
    /\ [](prMainPc \in {"received", "returned"} => prDoneSends = 1)
    /\ (prGoPc = "deferred") ~> (prMainPc = "returned" /\ prGoPc = "exit")

C16_Witness ==
    /\ prMainPc = "returned"
    /\ prGoPc = "exit"
    /\ prDoneSends = 1
    /\ \E k \in 1..Len(prLog) :
          prLog[k] = <<"Recovered from panic in goroutine",
                       Some("Something went wrong in goroutine!")>>

\* C17: no Increment is lost: the value read by Value() after wg.Wait()
\* equals numGoroutines * numIncrements in every interleaving; on the way
\* the counter always equals the number of increments written, at most one
\* goroutine is inside the critical section, and Value() is read only after
\* every goroutine has finished.
C17_NoLostUpdate ==
    /\ cntMainPc = "printed" =>
          finalValue = Some(numGoroutines * numIncrements)
    /\ counterValue =
          IncrementsDone + Cardinality({g \in DOMAIN incPc : incPc[g] = "unlock"})
    /\ Cardinality(InCritical) <= 1
    /\ cntMainPc \in {"value", "valueRead", "printed"} =>
          \A g \in DOMAIN incPc : incPc[g] = "exit"
    /\ CntAlive

C17_Witness ==
    /\ cntMainPc = "printed"
    /\ numGoroutines = MaxGoroutines
    /\ numIncrements = MaxIncrements
    /\ finalValue = Some(MaxGoroutines * MaxIncrements)

\* ---- the last request, as the claims about the REST API see it
OnUser(method) == req.Method = method /\ req.Path # None

MissingId == req.Path[1] \notin DOMAIN pre.users

StoreUntouched == users = pre.users /\ nextUserID = pre.nextUserID

Blank(s) == \A i \in 1..Len(s) : s[i] \in WhiteSpace

\* the fields of a creation payload that break a validation rule
InvalidFields(cr) ==
    {f \in {"name", "email", "age"} :
        \/ f = "name" /\ Blank(cr.Name)
        \/ f = "email" /\ (Blank(cr.Email) \/ ~Contains(cr.Email, "@"))
        \/ f = "age" /\ (cr.Age < 0 \/ cr.Age > 150)}

DetailsFor(f) ==
    Cardinality({i \in 1..Len(resp.Details) : resp.Details[i].Field = f})

SuccessfulPut == OnUser("PUT") /\ resp.Status = StatusOK

\* C18: GET, PUT and DELETE on an id that is not in the store answer
\* 404 'User not found' and change neither the users map nor nextUserID;
\* a PUT on a missing id creates nothing.
C18_MissingIdNotFound ==
    (\E m \in {"GET", "PUT", "DELETE"} : OnUser(m)) /\ MissingId =>
        /\ resp.Status = 404
        /\ resp.Error = "User not found"
        /\ StoreUntouched
        /\ req.Path[1] \notin DOMAIN users

C18_Witness ==
    /\ OnUser("PUT")
    /\ req.Body.Kind = "json"
    /\ MissingId
    /\ req.Path[1] < nextUserID
    /\ resp.Status = 404

\* C19: a POST whose payload breaks a validation rule is answered
\* 'Validation failed' with exactly one detail entry for each invalid field
\* and none for a valid one, and the users map and nextUserID are as before.
C19_ValidationRejects ==
    /\ req.Method = "POST"
    /\ req.Body.Kind = "json"
    /\ InvalidFields(DecodeCreate(req.Body)) # {}
    => /\ resp.Error = "Validation failed"
       /\ resp.Status = 400
       /\ \A f \in {"name", "email", "age"} :
             DetailsFor(f) =
                IF f \in InvalidFields(DecodeCreate(req.Body)) THEN 1 ELSE 0
       /\ Len(resp.Details) = Cardinality(InvalidFields(DecodeCreate(req.Body)))
       /\ StoreUntouched

C19_Witness ==
    /\ req.Method = "POST"
    /\ req.Body.Name = Some(<<" ">>)
    /\ req.Body.Email = Some(<<" ">>)
    /\ req.Body.Age = Some(MaxAge + 1)
    /\ Len(resp.Details) = 3
    /\ resp.Error = "Validation failed"

\* C20 as stated: after a successful PUT only the fields present in the
\* body have changed on the user: every other field of the user, every
\* other user and nextUserID are as before.
C20_OnlyBodyFieldsChange ==
    SuccessfulPut =>
        LET id == req.Path[1]
            old == pre.users[id]
            new == users[id]
        IN  /\ DOMAIN users = DOMAIN pre.users
            /\ new.ID = old.ID
            /\ new.CreatedAt = old.CreatedAt
            /\ new.UpdatedAt = old.UpdatedAt
            /\ req.Body.Name = None => new.Name = old.Name
            /\ req.Body.Email = None => new.Email = old.Email
            /\ req.Body.Age = None => new.Age = old.Age
            /\ \A k \in DOMAIN users \ {id} : users[k] = pre.users[k]
            /\ nextUserID = pre.nextUserID

\* C20: after a successful PUT the name, email and age present in the body
\* have the body's values, the absent ones, the ID and CreatedAt are as
\* before, UpdatedAt is the time of the request, later than before, and
\* every other user and nextUserID are as before.
C20_PartialUpdate ==
    SuccessfulPut =>
        LET id == req.Path[1]
            old == pre.users[id]
            new == users[id]
        IN  /\ DOMAIN users = DOMAIN pre.users
            /\ new.ID = old.ID
            /\ new.CreatedAt = old.CreatedAt
            /\ new.UpdatedAt = clock - 1
            /\ new.UpdatedAt > old.UpdatedAt
            /\ new.Name = OrElse(req.Body.Name, old.Name)
            /\ new.Email = OrElse(req.Body.Email, old.Email)
            /\ new.Age = OrElse(req.Body.Age, old.Age)
            /\ \A k \in DOMAIN users \ {id} : users[k] = pre.users[k]
            /\ nextUserID = pre.nextUserID
            /\ resp.Data = Some(new)

C20_Witness ==
    /\ SuccessfulPut
    /\ req.Body.Name = Some(<<"B">>)
    /\ req.Body.Email = None
    /\ req.Body.Age = None
    /\ users[req.Path[1]].Name # pre.users[req.Path[1]].Name
    /\ users[req.Path[1]].Email = JohnEmail
    /\ users[req.Path[1]].Age = JohnAge

\* C21: a successful DELETE of an existing user is answered with status
\* 204 No Content.
C21_DeleteAnswersNoContent ==
    OnUser("DELETE") /\ ~MissingId => resp.Status = 204

\* C22: for any count >= 0 printNumbers receives and prints exactly
\* 1*1, 2*2, ..., count*count, each once and in ascending order; then
\* printNumbers returns and both stage goroutines exit.
C22_PipelineDelivers ==
    /\ [](IsPrefix(plPrinted, Squares(plCount)))
    /\ [](IsPrefix(plSent2, Squares(plCount)))
    /\ [](plMainPc = "done" => plPrinted = Squares(plCount))
    /\ [](PlAlive)
    /\ <>[]PlAllDone

C22_Witness ==
    /\ PlAllDone
    /\ plCount = PipelineCount
    /\ plPrinted = <<1, 4, 9, 16, 25>>

\* C23: each stage closes only the channel it created, exactly once, after
\* its input is exhausted and its last value has been delivered; nobody
\* closes a channel it only reads, and no value is sent on a closed channel.
C23_ChannelOwnership ==
    /\ ch1Closers \in {<<>>, <<"gen">>}
    /\ ch2Closers \in {<<>>, <<"sq">>}
    /\ ch1Closers # <<>> => plSent1 = UpTo(plCount)
    /\ ch2Closers # <<>> =>
          /\ ch1Closers # <<>>
          /\ plSent2 = Squares(plCount)
    /\ PlAlive

C23_Witness ==
    /\ ch1Closers = <<"gen">>
    /\ ch2Closers = <<"sq">>
    /\ plCount = MaxCount
    /\ Len(plSent2) = MaxCount
    /\ PlAllDone

\* the number of lines of a kind the operation goroutine has printed
Lines(kind) == Cardinality({k \in 1..Len(ctxLog) : ctxLog[k][1] = kind})

Verdicts == Lines("cancelled") + Lines("completed")

\* C24: whatever the order of the close of cancel and the iterations, the
\* operation goroutine prints at most 10 steps, then exactly one of
\* "Operation cancelled!" and "Operation completed!", then sends exactly one
\* value on done; the caller's <-done eventually returns; cancel is closed at
\* most once and nothing panics.
C24_SingleCompletionSignal ==
    /\ [](Lines("step") <= OpSteps /\ Verdicts <= 1)
    /\ [][("step" \in NewLines) => Verdicts = 0]_vars
    /\ [](opPc \in {"defer", "exit"} <=> Verdicts = 1)
    /\ [](doneSends <= 1)
    /\ [](doneSends = 1 <=> opPc = "exit")
    /\ [](ctxMainPc \in {"received", "finished"} => doneSends = 1)
    /\ [](cancelCloses <= 1)
    /\ []~ctxPanicked
    /\ <>[](ctxMainPc = "finished")

C24_Witness ==
    /\ ctxMainPc = "finished"
    /\ doneSends = 1
    /\ Lines("completed") = 1
    /\ Lines("step") = OpSteps
    /\ cancelCloses = 0

\* safeOperation has returned to demonstratePanicRecover
SafeOperationReturned == prMainPc \notin {"idle", "call", "unwind"}

\* q is a / b as Go computes it: the quotient truncated toward zero
IsGoQuotient(q, a, b) ==
    LET rem == a - q * b
    IN  /\ Abs(rem) < Abs(b)
        /\ rem = 0 \/ ((rem < 0) <=> (a < 0))

\* C25: when the wrapped operation panics (divisor 0), safeOperation returns
\* nil and the panic goes no further; when it does not panic, safeOperation
\* returns the operation's own result (a / b, also when that is 0).
C25_PanicBecomesNil ==
    /\ ~prCrashed
    /\ SafeOperationReturned /\ prB = 0 =>
          /\ prResult = None
          /\ prPanic = None \/ prPanic[1] # "main"
    /\ SafeOperationReturned /\ prB # 0 =>
          /\ prResult # None
          /\ IsGoQuotient(prResult[1], prA, prB)
          /\ \A k \in 1..Len(prLog) : prLog[k][1] # "Recovered from panic"

C25_Witness ==
    /\ prA = PrDemoA
    /\ prB = PrDemoB
    /\ prResult = None
    /\ prLog = <<<<"Recovered from panic",
                   Some("division by zero in risky operation")>>,
                 <<"Operation failed safely", None>>>>

\* C26: a Write is never inside its critical section together with a Read
\* (Reads may overlap each other, and they do), the lock's own counters
\* agree with who is inside, and every Read returns "" when no Write has
\* completed and otherwise the value of the last completed Write.
C26_ReadersWriterExclusion ==
    /\ ~(Writing /\ Reading # {})
    /\ rwReaders = Cardinality(Reading)
    /\ rwWriter <=> Writing
    /\ \A rd \in DOMAIN rdPc :
          rdPc[rd] = "runlock" =>
             /\ rdValue[rd] = rdSeen[rd]
             /\ rdValue[rd] = sdLastWrite
             /\ rdValue[rd] \in {""} \cup {Sprintf(i) : i \in 0..(SdWrites - 1)}
             /\ rdValue[rd] = "" <=> (wrI = 0)

C26_Witness ==
    /\ Cardinality(Reading) = SdReaders
    /\ wrPc = "lock"
    /\ wrI = 1
    /\ \A rd \in DOMAIN rdPc : rdPc[rd] = "runlock" /\ rdValue[rd] = "value-0"

\* the collector has received its last result
CollectionEnded ==
    /\ mainpc \in {"collect", "done"}
    /\ r > numJobs
    /\ Len(collected) = numJobs

\* C27: when the collector has received its N-th result, jobs is closed and
\* empty, results is empty and no worker holds a job whose result is still
\* to be delivered, although workers may not have exited yet.
C27_QuiescentAtCollectionEnd ==
    /\ numJobs >= 1 /\ Len(collected) = numJobs => CollectionEnded
    /\ CollectionEnded =>
          /\ jobsClosed
          /\ jobs = <<>>
          /\ results = <<>>
          /\ \A id \in DOMAIN wpc : wpc[id] \in {"range", "exit"}
          /\ Len(sentJobs) = numJobs
          /\ Len(recvLog) = numJobs

C27_Witness ==
    /\ CollectionEnded
    /\ numJobs = MaxJobs
    /\ mainpc = "collect"
    /\ \E id \in DOMAIN wpc : wpc[id] = "range"
    /\ \E id \in DOMAIN wpc : wpc[id] = "exit"

SuccessfulPost == req.Method = "POST" /\ resp.Status = StatusCreated

\* C28: with requests handled one at a time, every key k of users holds a
\* user whose ID is k, every key is below nextUserID, nextUserID never
\* decreases, and a POST assigns the id nextUserID had, which no user holds
\* or ever held: an id freed by DELETE is not assigned again.
C28_StoreIdentity ==
    /\ [](\A k \in DOMAIN users : users[k].ID = k /\ k < nextUserID)
    /\ [][nextUserID' >= nextUserID]_vars
    /\ [](SuccessfulPost =>
            /\ resp.Data = Some(users[pre.nextUserID])
            /\ \A k \in DOMAIN pre.users : k < pre.nextUserID
            /\ DOMAIN users = DOMAIN pre.users \cup {pre.nextUserID}
            /\ nextUserID = pre.nextUserID + 1)
    /\ [](OnUser("DELETE") /\ ~MissingId =>
            /\ DOMAIN users = DOMAIN pre.users \ {req.Path[1]}
            /\ nextUserID = pre.nextUserID)

C28_Witness ==
    /\ SuccessfulPost
    /\ DOMAIN users = {FirstFreeID, FirstFreeID + 1}
    /\ nextUserID = FirstFreeID + 2
    /\ users[FirstFreeID + 1].ID = FirstFreeID + 1

\* C29: two valid creation requests handled concurrently are assigned
\* distinct ids and both users are in the store afterwards.
C29_ConcurrentCreatesDistinct ==
    /\ ~ccCrashed
    /\ (\A h \in Handlers : ccPc[h] = "done") =>
          /\ \A g, h \in Handlers : g # h => ccResp[g] # ccResp[h]
          /\ \A h \in Handlers :
                /\ ccResp[h] \in DOMAIN users
                /\ users[ccResp[h]] = ccUser[h][1]

\* C30: every user in the store satisfies the creation validation rules:
\* non-blank name, email containing '@', age between 0 and 150.
C30_StoreValidity ==
    \A k \in DOMAIN users : InvalidFields(users[k]) = {}

====
